---- MODULE Spec2Model ----
(***************************************************************************)
(* Model of UniversalCompanyScraper (tools.py): the deduplication index,   *)
(* the persistence sink (JSON document file + CSV columnar file) and the   *)
(* scraping run driven by main.py: the launch of the browser, the branch   *)
(* taken on the listing page (links followed, items clicked, or the page   *)
(* itself) and the visit of each entity.                                   *)
(*                                                                         *)
(* Strings are sequences of tokens.  A token is either one character       *)
(* ("a", "A", " ", "|", "/") or an atomic piece of text that no other      *)
(* token is a prefix of ("website:", "?q", "u" for a URL stem ...), so two *)
(* token sequences are equal exactly when the Python strings are equal.    *)
(***************************************************************************)
EXTENDS Integers, Sequences, FiniteSets, TLC

\* ---------------------------------------------------------------- bounds
MaxRecords == 2     \* longest in-memory record list explored
MaxFaults == 1      \* I/O errors and crashes explored per behaviour
MaxListing == 2     \* most entities on the listing page
MaxRuns == 2        \* runs of main() over the listing
MaxShown == 3       \* most elements located in one pass of the click loop
MaxSegments == 2    \* most path segments of a URL given to normalize_url
MaxSocials == 3     \* most links given to _categorize_social_media
MaxPatterns == 2    \* most entries of helpers.phone_patterns
MaxVisible == 2     \* most close buttons visible on one overlay
MaxAnchors == 3     \* most anchors the company selectors match
MaxLinks == 2       \* most links the website selectors match
MaxLabels == 3      \* most labels of a host name

\* ------------------------------------------------------ program constants
MinSimilarItems == 5       \* find_company_links: count >= 5
MinListItems == 3          \* scrape_companies: count >= 3
max_scroll_attempts == 4   \* scrape_companies
MinPhoneLength == 10       \* extract_phone_from_text: len(phone) >= 10

\* ------------------------------------------------------- strings, values
None == <<"None">>   \* Python's None; no string is made of this token

\* str.lower() on one token
LowerTok(t) ==
  CASE t = "A" -> "a"
    [] t = "B" -> "b"
    [] t = "W" -> "w"
    [] t = "HTTP:" -> "http:"
    [] t = "FB.ME" -> "fb.me"
    [] OTHER -> t

\* str.lower()
Lower(s) == [i \in 1..Len(s) |-> LowerTok(s[i])]

RECURSIVE LStrip(_)
LStrip(s) == IF s # <<>> /\ Head(s) = " " THEN LStrip(Tail(s)) ELSE s

RECURSIVE RStrip(_)
RStrip(s) ==
  IF s # <<>> /\ s[Len(s)] = " " THEN RStrip(SubSeq(s, 1, Len(s) - 1)) ELSE s

\* str.strip()
Strip(s) == RStrip(LStrip(s))

\* "sep".join(parts)
RECURSIVE Join(_, _)
Join(sep, parts) ==
  IF parts = <<>> THEN <<>>
  ELSE IF Len(parts) = 1 THEN parts[1]
  ELSE parts[1] \o sep \o Join(sep, Tail(parts))

\* company_data.get(field) or ""
GetOrEmpty(v) == IF v = None THEN <<>> ELSE v

\* the normalisation of one identity field: strip().lower()
NormField(v) == Lower(Strip(GetOrEmpty(v)))

\* lines 108-121: the composite key of three field values
KeyOfParts(name, website, source_url) ==
  LET p1 == IF name # <<>> THEN << <<"name:">> \o name >> ELSE <<>>
      p2 == IF website # <<>> THEN << <<"website:">> \o website >> ELSE <<>>
      p3 == IF source_url # <<>> THEN << <<"source:">> \o source_url >> ELSE <<>>
      key_parts == p1 \o p2 \o p3
      with_fallback ==
        IF key_parts = <<>> /\ source_url # <<>>
        THEN << <<"source:">> \o source_url >>
        ELSE key_parts
  IN Join(<<"|">>, with_fallback)

\* UniversalCompanyScraper._generate_company_key
_generate_company_key(company_data) ==
  KeyOfParts(NormField(company_data.name),
             NormField(company_data.website_url),
             NormField(company_data.source_url))

\* _is_duplicate_company as it would be if the lookup built its key from the
\* fields as given, without strip() and lower()
IsDuplicateRawFields(company_data, processed) ==
  KeyOfParts(GetOrEmpty(company_data.name),
             GetOrEmpty(company_data.website_url),
             GetOrEmpty(company_data.source_url)) \in processed

\* UniversalCompanyScraper._is_duplicate_company
_is_duplicate_company(company_data, processed) ==
  _generate_company_key(company_data) \in processed

\* ------------------------------------------------------------ candidates
\* A candidate record as handed to _save_company_immediately; company_index
\* 0 stands for a dict that has no "company_index" entry yet.
Company(name, website, source) ==
  [name |-> name, website_url |-> website, source_url |-> source,
   company_index |-> 0]

U1 == <<"u">>              \* https://example.com/company1
U1Slash == <<"u", "/">>    \* https://example.com/company1/
U1Query == <<"u", "?q">>   \* https://example.com/company1?param=123
U2 == <<"x">>              \* https://example.com/company2

\* the candidates of the sessions with I/O errors and crashes: a company, the
\* same company in another letter case and with surrounding blanks, another
\* company found at the same URL, and a record with no identity field at all
CommitCandidates ==
  { Company(<<"a">>, <<"w">>, U1),
    Company(<<"A", " ">>, <<"W">>, U1),
    Company(<<"b">>, <<"v">>, U1),
    Company(None, None, <<>>) }

\* the candidates whose commit is explored with an I/O error or a crash
FaultCandidates ==
  { Company(<<"a">>, <<"w">>, U1),
    Company(None, None, <<>>) }

\* the candidates of the fault-free sessions: the above, the first company
\* under variants of its URL, a name that contains the key's separator and
\* label, a company at another URL, and a second record without identity
\* (its name is a blank)
Candidates ==
  CommitCandidates \cup
  { Company(<<" ">>, None, <<>>),
    Company(<<"a">>, <<"w">>, U1Slash),
    Company(<<"a">>, <<"w">>, U1Query),
    Company(<<"a", "|", "website:", "w">>, None, U1),
    Company(<<"b">>, <<"v">>, U2) }

\* ------------------------------------------------------------------ state
VARIABLES
  pc,                   \* "down": no process; "idle": session constructed;
                        \* "scraping": inside scrape_companies
  companies_data,       \* self.companies_data
  processed_companies,  \* self.processed_companies
  json_file,            \* the document file  <domain>_companies.json
  csv_file,             \* the columnar file  <domain>_companies.csv
  result,               \* return value of the last _save_company_immediately
  call,                 \* the dict passed to that call: as given, as left
  accepted,             \* history: records for which the call returned True
  faults,               \* history: I/O errors and crashes so far
  listing,              \* entities behind the URLs find_company_links returns
  pos,                  \* loop position of scrape_companies (1-based)
  run,                  \* runs of main() started so far
  hist,                 \* history of the runs of main(), see NoHist
  browser,              \* "none", "open" (launched), "closed" (browser.close)
  helper_items,         \* listing page: most elements one of
                        \* helpers.item_selectors matches
  items,                \* listing page: elements the first matching selector
                        \* of scrape_companies' item_selectors matches
  strategy,             \* "none", "direct", "click", "single"
  returned,             \* what main() returned, once it has
  processed_count,      \* click loop: processed_count
  current_count,        \* click loop: current_count
  scroll_attempts,      \* click loop: scroll_attempts
  arg,                  \* the argument of the function applied, see SpecFn
  res,                  \* the value it returned, once it has
  landing,              \* listing page: the URL the browser reports once
                        \* page.goto(self.base_url) has loaded it
  page_url,             \* page.url
  step,                 \* click loop: where the handling of the element at
                        \* pos stands, see SpecClick
  before_url,           \* history: page.url before the click on the element
                        \* being handled, Blank when none is
  close_visible,        \* the close selectors whose element is visible on
                        \* the overlay that is open
  close_clicked         \* the close selector clicked, 0 for none

vars == <<pc, companies_data, processed_companies, json_file, csv_file,
          result, call, accepted, faults, listing, pos, run, hist,
          browser, helper_items, items, strategy, returned, processed_count,
          current_count, scroll_attempts, arg, res, landing, page_url, step,
          before_url, close_visible, close_clicked>>

\* the argument and the result of the pure functions
fn_vars == <<arg, res>>

\* the page and the element of the click loop being handled
step_vars == <<page_url, step, before_url, close_visible, close_clicked>>

site == <<listing, helper_items, items, landing>>

click_vars == <<processed_count, current_count, scroll_attempts>>

nav_vars ==
  <<browser, helper_items, items, landing, strategy, returned, click_vars>>

store == <<companies_data, processed_companies, json_file, csv_file,
           result, call, accepted, faults>>

\* no call of _save_company_immediately has returned since the last other step
NoCall ==
  [made |-> FALSE, given |-> Company(<<>>, <<>>, <<>>),
   after |-> Company(<<>>, <<>>, <<>>)]

\* the caller's dict before the call and after it (line 235 assigns the index
\* in place)
Called(given, after) == [made |-> TRUE, given |-> given, after |-> after]

\* ------------------------------------------------------------------ files
JsonAbsent == [state |-> "absent", data |-> <<>>]
JsonCorrupt == [state |-> "corrupt", data |-> <<>>]

\* json.dump(data, f) into a file opened with "w", completed
json_dump(data) == [state |-> "valid", data |-> data]

CsvAbsent == [exists |-> FALSE, rows |-> <<>>]

CsvHeader ==
  [kind |-> "header", company_index |-> 0, name |-> <<>>,
   website_url |-> <<>>, source_url |-> <<>>]

\* the row DictWriter.writerow writes for a company: None becomes ""
CsvRow(company_data) ==
  [kind |-> "row", company_index |-> company_data.company_index,
   name |-> GetOrEmpty(company_data.name),
   website_url |-> GetOrEmpty(company_data.website_url),
   source_url |-> GetOrEmpty(company_data.source_url)]

DataRows(csv) == SelectSeq(csv.rows, LAMBDA r : r.kind = "row")

\* open(csv, "a" if exists else "w") followed by the first `lines` lines the
\* call writes: the header (new file only), then the row
CsvAppend(csv, company_data, lines) ==
  LET out == IF csv.exists THEN <<CsvRow(company_data)>>
             ELSE <<CsvHeader, CsvRow(company_data)>>
  IN [exists |-> TRUE, rows |-> csv.rows \o SubSeq(out, 1, lines)]

CsvLines(csv) == IF csv.exists THEN 1 ELSE 2

\* ------------------------------------------------- _load_existing_data
Range(s) == {s[i] : i \in 1..Len(s)}

\* _load_existing_data as it would be without the loop of lines 72-74: the
\* records are loaded, the index of processed companies stays empty
LoadWithoutIndex(json) ==
  IF json.state = "valid"
  THEN [companies_data |-> json.data, processed_companies |-> {}]
  ELSE [companies_data |-> <<>>, processed_companies |-> {}]

\* _load_existing_data as it would be without line 69: the index is built,
\* the list stays empty
LoadIndexOnly(json) ==
  IF json.state = "valid"
  THEN [companies_data |-> <<>>,
        processed_companies |->
          {_generate_company_key(company) : company \in Range(json.data)}]
  ELSE [companies_data |-> <<>>, processed_companies |-> {}]

\* UniversalCompanyScraper._load_existing_data: the state of a session after
\* construction.  A document file that is absent leaves both empty; one that
\* json.load cannot parse raises, and the handler resets both to empty.
_load_existing_data(json) ==
  IF json.state = "valid"
  THEN [companies_data |-> json.data,
        processed_companies |->
          {_generate_company_key(company) : company \in Range(json.data)}]
  ELSE [companies_data |-> <<>>, processed_companies |-> {}]

\* --------------------------------------------- _save_company_immediately
\* How far the commit of one record got on disk.  stage "memory": the record
\* is in the list and the index, no file touched (open of the document file
\* failed); "json_partial": the document file was truncated by open(.., "w")
\* and json.dump did not finish; "json_done": the document file is rewritten,
\* the columnar file untouched; "csv": the columnar file was opened (created
\* when absent) and `lines` of its lines reached the disk.
FullCommit(csv) == [stage |-> "csv", lines |-> CsvLines(csv)]

\* the points at which an I/O error can end the commit.  An existing columnar
\* file that takes no line is the file "json_done" leaves, so the "csv" points
\* are those of a file the call creates: empty, or with its header only.
CommitPoints(csv) ==
  { [stage |-> st, lines |-> 0] : st \in {"memory", "json_partial", "json_done"} }
  \cup (IF csv.exists THEN {}
        ELSE { [stage |-> "csv", lines |-> n] : n \in {0, 1} })

\* the points at which a crash leaves the disk as no call that returned does;
\* a crash before the first file is opened is the action Terminate, one after
\* the last write leaves the files of a call that returned
CrashPoints(csv) == CommitPoints(csv) \ {[stage |-> "memory", lines |-> 0]}

\* line 235 as it would be if the index were the length of the list
WithIndexFromZero(company_data, data) ==
  [company_data EXCEPT !.company_index = Len(data)]

\* line 235: company_data["company_index"] = len(self.companies_data) + 1
WithIndex(company_data, data) ==
  [company_data EXCEPT !.company_index = Len(data) + 1]

JsonAfter(json, data, pt) ==
  CASE pt.stage = "memory" -> json
    [] pt.stage = "json_partial" -> JsonCorrupt
    [] OTHER -> json_dump(data)

CsvAfter(csv, company_data, pt) ==
  IF pt.stage = "csv" THEN CsvAppend(csv, company_data, pt.lines) ELSE csv

\* the commit as it would be if line 242 inserted the record at the front of
\* the list
CommitAtFront(company_data, pt) ==
  LET indexed == WithIndex(company_data, companies_data)
      data == <<indexed>> \o companies_data
  IN /\ processed_companies' =
          processed_companies \cup {_generate_company_key(indexed)}
     /\ companies_data' = data
     /\ json_file' = JsonAfter(json_file, data, pt)
     /\ csv_file' = CsvAfter(csv_file, indexed, pt)

\* the commit as it would be if the key were added to the index after the
\* files are written: a commit that an I/O error ends leaves it out
CommitIndexAfterFiles(company_data, pt) ==
  LET indexed == WithIndex(company_data, companies_data)
      data == Append(companies_data, indexed)
  IN /\ processed_companies' =
          IF pt = FullCommit(csv_file)
          THEN processed_companies \cup {_generate_company_key(indexed)}
          ELSE processed_companies
     /\ companies_data' = data
     /\ json_file' = JsonAfter(json_file, data, pt)
     /\ csv_file' = CsvAfter(csv_file, indexed, pt)

\* lines 235-302 up to the commit point pt; the process stays alive
Commit(company_data, pt) ==
  LET indexed == WithIndex(company_data, companies_data)
      data == Append(companies_data, indexed)
  IN /\ processed_companies' =
          processed_companies \cup {_generate_company_key(indexed)}
     /\ companies_data' = data
     /\ json_file' = JsonAfter(json_file, data, pt)
     /\ csv_file' = CsvAfter(csv_file, indexed, pt)

\* UniversalCompanyScraper._save_company_immediately, one definition for each
\* way the call can end.

\* the duplicate path as it would be if line 235 came before the lookup of line
\* 228: the caller's dict gets an index although nothing is stored
SaveDuplicateIndexFirst(company_data) ==
  /\ _is_duplicate_company(company_data, processed_companies)
  /\ result' = "False"
  /\ call' = Called(company_data, WithIndex(company_data, companies_data))
  /\ UNCHANGED <<companies_data, processed_companies, json_file, csv_file,
                 accepted, faults>>

\* lines 227-232: a duplicate is skipped, the call returns False
SaveDuplicate(company_data) ==
  /\ _is_duplicate_company(company_data, processed_companies)
  /\ result' = "False"
  /\ call' = Called(company_data, company_data)
  /\ UNCHANGED <<companies_data, processed_companies, json_file, csv_file,
                 accepted, faults>>

\* lines 234-307: a new record is committed, the call returns True
SaveNew(company_data) ==
  /\ Len(companies_data) < MaxRecords
  /\ ~_is_duplicate_company(company_data, processed_companies)
  /\ Commit(company_data, FullCommit(csv_file))
  /\ result' = "True"
  /\ call' = Called(company_data, WithIndex(company_data, companies_data))
  /\ accepted' = Append(accepted, WithIndex(company_data, companies_data))
  /\ UNCHANGED faults

\* the error path as it would be if the handler of lines 309-316 took the
\* record out of the list and its key out of the index again
SaveIOErrorRollback(company_data, pt) ==
  /\ faults < MaxFaults
  /\ Len(companies_data) < MaxRecords
  /\ ~_is_duplicate_company(company_data, processed_companies)
  /\ pt \in CommitPoints(csv_file)
  /\ LET indexed == WithIndex(company_data, companies_data)
         data == Append(companies_data, indexed)
     IN /\ json_file' = JsonAfter(json_file, data, pt)
        /\ csv_file' = CsvAfter(csv_file, indexed, pt)
  /\ UNCHANGED <<companies_data, processed_companies>>
  /\ result' = "False"
  /\ call' = Called(company_data, WithIndex(company_data, companies_data))
  /\ faults' = faults + 1
  /\ UNCHANGED accepted

\* lines 309-316: an I/O error during the commit is caught, the call returns
\* False
SaveIOError(company_data, pt) ==
  /\ faults < MaxFaults
  /\ Len(companies_data) < MaxRecords
  /\ ~_is_duplicate_company(company_data, processed_companies)
  /\ pt \in CommitPoints(csv_file)
  /\ Commit(company_data, pt)
  /\ result' = "False"
  /\ call' = Called(company_data, WithIndex(company_data, companies_data))
  /\ faults' = faults + 1
  /\ UNCHANGED accepted

\* the process is killed at commit point pt: the files keep what reached the
\* disk, the session state is gone and the call never returns
SaveCrash(company_data, pt) ==
  /\ faults < MaxFaults
  /\ Len(companies_data) < MaxRecords
  /\ ~_is_duplicate_company(company_data, processed_companies)
  /\ pt \in CrashPoints(csv_file)
  /\ LET indexed == WithIndex(company_data, companies_data)
         data == Append(companies_data, indexed)
     IN /\ json_file' = JsonAfter(json_file, data, pt)
        /\ csv_file' = CsvAfter(csv_file, indexed, pt)
  /\ companies_data' = <<>>
  /\ processed_companies' = {}
  /\ result' = "none"
  /\ call' = NoCall
  /\ faults' = faults + 1
  /\ UNCHANGED accepted

\* ------------------------------------------------------- session actions
main_vars == <<listing, pos, run, hist, nav_vars, fn_vars, step_vars>>

\* history of a behaviour, read by the properties only:
\*   fresh            the current session was constructed on an empty store
\*   io_error         some commit hit an I/O error
\*   failed           keys of the records whose commit hit an I/O error in the
\*                    current session
\*   crash_in_commit  some commit was cut short by a crash
\*   cleared          the keys the last clear_all_data of the session removed
\*   skipped, threw   positions of the first run whose page.goto failed,
\*                    whose extraction raised inside extract_company_details
\*   yielded1         candidates the first run handed to the sink
\*   later_same       every candidate a later run handed to the sink is one
\*                    of yielded1
\*   later_accepts    candidates of later runs the sink accepted
\*   clean1, doc1     the first run completed without a fault; the document
\*                    file it left
\*   dry              the last invocations of scroll_and_load_more of the
\*                    run that reported no new content, counted back to the
\*                    last one that reported some
\*   clicked          positions the click loop of the run clicked
\*   reclicked        some position was clicked a second time
\*   raised           positions of the run whose handling raised in the
\*                    click loop
\*   visited          the URLs the direct-link loop of the run called
\*                    page.goto with, in order
NoHist ==
  [fresh |-> FALSE, io_error |-> FALSE, failed |-> {},
   crash_in_commit |-> FALSE, cleared |-> {},
   skipped |-> {}, threw |-> {}, yielded1 |-> {}, later_same |-> TRUE,
   later_accepts |-> 0, clean1 |-> FALSE, doc1 |-> JsonAbsent,
   dry |-> 0, clicked |-> {}, reclicked |-> FALSE, raised |-> {},
   visited |-> <<>>]

\* UniversalCompanyScraper.__init__
Construct ==
  /\ pc = "down"
  /\ LET loaded == _load_existing_data(json_file)
     IN /\ companies_data' = loaded.companies_data
        /\ processed_companies' = loaded.processed_companies
  /\ pc' = "idle"
  /\ result' = "none"
  /\ call' = NoCall
  /\ hist' = [hist EXCEPT
               !.fresh = json_file = JsonAbsent /\ csv_file = CsvAbsent,
               !.failed = {},
               !.cleared = {}]
  /\ UNCHANGED <<json_file, csv_file, accepted, faults, listing, pos, run,
                 nav_vars, fn_vars, step_vars>>

AcceptDuplicate(c) ==
  /\ pc = "idle"
  /\ SaveDuplicate(c)
  /\ UNCHANGED <<pc, main_vars>>

AcceptNew(c) ==
  /\ pc = "idle"
  /\ SaveNew(c)
  /\ UNCHANGED <<pc, main_vars>>

AcceptIOError(c, pt) ==
  /\ pc = "idle"
  /\ SaveIOError(c, pt)
  /\ hist' = [hist EXCEPT
               !.io_error = TRUE,
               !.failed = @ \cup {_generate_company_key(c)}]
  /\ UNCHANGED <<pc, listing, pos, run, nav_vars, fn_vars, step_vars>>

AcceptCrash(c, pt) ==
  /\ pc = "idle"
  /\ SaveCrash(c, pt)
  /\ pc' = "down"
  /\ hist' = [hist EXCEPT !.crash_in_commit = TRUE]
  /\ UNCHANGED <<listing, pos, run, nav_vars, fn_vars, step_vars>>

\* the process ends outside a commit (exit or kill)
Terminate ==
  /\ pc = "idle"
  /\ pc' = "down"
  /\ companies_data' = <<>>
  /\ processed_companies' = {}
  /\ result' = "none"
  /\ call' = NoCall
  /\ UNCHANGED <<json_file, csv_file, accepted, faults, main_vars>>

\* clear_all_data as it would be without line 1199: the index keeps its keys
ClearKeepsIndex ==
  /\ pc = "idle"
  /\ companies_data' = <<>>
  /\ processed_companies' = processed_companies
  /\ csv_file' = CsvAbsent
  /\ json_file' = JsonAbsent
  /\ accepted' = <<>>
  /\ result' = "none"
  /\ call' = NoCall
  /\ hist' = [NoHist EXCEPT !.fresh = TRUE, !.cleared = processed_companies]
  /\ UNCHANGED <<pc, faults, listing, pos, run, nav_vars, fn_vars, step_vars>>

\* UniversalCompanyScraper.clear_all_data
clear_all_data ==
  /\ pc = "idle"
  /\ companies_data' = <<>>
  /\ processed_companies' = {}
  /\ csv_file' = CsvAbsent
  /\ json_file' = JsonAbsent
  /\ accepted' = <<>>
  /\ result' = "none"
  /\ call' = NoCall
  /\ hist' = [NoHist EXCEPT !.fresh = TRUE, !.cleared = processed_companies]
  /\ UNCHANGED <<pc, faults, listing, pos, run, nav_vars, fn_vars, step_vars>>

\* the columnar file as it would be if save_to_csv opened it as
\* _save_company_immediately does, to append
ReexportCsvAppending(data) ==
  [exists |-> TRUE,
   rows |-> csv_file.rows
            \o (IF csv_file.exists THEN <<>> ELSE <<CsvHeader>>)
            \o [i \in 1..Len(data) |-> CsvRow(data[i])]]

\* what save_to_csv leaves in the two files
ReexportCsv(data) ==
  [exists |-> TRUE,
   rows |-> <<CsvHeader>> \o [i \in 1..Len(data) |-> CsvRow(data[i])]]

\* UniversalCompanyScraper.save_to_csv with the default filename
save_to_csv ==
  /\ pc = "idle"
  /\ IF companies_data = <<>>
     THEN UNCHANGED <<json_file, csv_file>>
     ELSE /\ csv_file' = ReexportCsv(companies_data)
          /\ json_file' = json_dump(companies_data)
  /\ result' = "none"
  /\ call' = NoCall
  /\ UNCHANGED <<pc, companies_data, processed_companies, accepted, faults,
                 main_vars>>

\* what main() returns: nothing yet, or a list of records
NotReturned == [done |-> FALSE, value |-> <<>>]

Returned(value) == [done |-> TRUE, value |-> value]

\* self.base_url, the URL of the listing page as main() is given it
BaseUrl == <<"l">>

\* the URL the browser reports for the listing page when it differs from the
\* one given: the browser adds the slash to a bare origin, or the site
\* redirects
BaseUrlReported == <<"l", "/">>

\* about:blank, the page of a new tab
Blank == <<"about:blank">>

\* no element of the click loop is being handled
NoStep ==
  /\ page_url = Blank
  /\ step = "idle"
  /\ before_url = Blank
  /\ close_visible = {}
  /\ close_clicked = 0

\* no function is applied
NoFn ==
  /\ arg = [fn |-> "none"]
  /\ res = [done |-> FALSE]

\* no run of scrape_companies is under way
NoRun ==
  /\ browser = "none"
  /\ strategy = "none"
  /\ returned = NotReturned
  /\ processed_count = 0
  /\ current_count = 0
  /\ scroll_attempts = 0

Init ==
  /\ pc = "down"
  /\ companies_data = <<>>
  /\ processed_companies = {}
  /\ json_file = JsonAbsent
  /\ csv_file = CsvAbsent
  /\ result = "none"
  /\ call = NoCall
  /\ accepted = <<>>
  /\ faults = 0
  /\ listing = <<>>
  /\ pos = 0
  /\ run = 0
  /\ hist = NoHist
  /\ NoRun
  /\ NoFn
  /\ NoStep
  /\ landing = BaseUrl
  /\ helper_items = 0
  /\ items = 0

\* sessions driven through the class interface, as the test script does,
\* with I/O errors, crashes and restarts
Next ==
  \/ Construct
  \/ \E c \in CommitCandidates : AcceptDuplicate(c)
  \/ \E c \in CommitCandidates : AcceptNew(c)
  \/ \E c \in FaultCandidates :
        \E pt \in CommitPoints(csv_file) : AcceptIOError(c, pt)
  \/ \E c \in FaultCandidates :
        \E pt \in CrashPoints(csv_file) : AcceptCrash(c, pt)
  \/ Terminate
  \/ clear_all_data
  \/ save_to_csv

Spec == Init /\ [][Next]_vars

\* fault-free sessions over the full candidate set
NextKeys ==
  \/ Construct
  \/ \E c \in Candidates : AcceptDuplicate(c)
  \/ \E c \in Candidates : AcceptNew(c)
  \/ Terminate
  \/ clear_all_data
  \/ save_to_csv

SpecKeys == Init /\ [][NextKeys]_vars

\* ---------------------------------------------- main(): direct-link runs
\* the detail pages of the site: the company each URL shows
Urls == {U1, U1Slash, U2}

Page(url) ==
  IF url = U2 THEN [name |-> <<"b">>, website_url |-> None]
  ELSE [name |-> <<"a">>, website_url |-> <<"w">>]

\* what find_company_links can return: URLs in discovery order, none twice
Listings ==
  { l \in UNION { [1..n -> Urls] : n \in 1..MaxListing } :
      \A i, j \in 1..Len(l) : i # j => l[i] # l[j] }

\* extract_company_details followed by line 868.  The function catches every
\* exception: when a page access raises part-way (before the name is read, or
\* after the name and before the website), it returns the fields set so far.
ExtractOutcomes(url) ==
  { [company |-> Company(Page(url).name, Page(url).website_url, url),
     threw |-> FALSE],
    [company |-> Company(None, None, url), threw |-> TRUE],
    [company |-> Company(Page(url).name, None, url), threw |-> TRUE] }

HistYield(x, ret) ==
  [hist EXCEPT
     !.threw = IF run = 1 /\ x.threw THEN @ \cup {pos} ELSE @,
     !.yielded1 = IF run = 1 THEN @ \cup {x.company} ELSE @,
     !.later_same = IF run > 1 THEN @ /\ x.company \in hist.yielded1 ELSE @,
     !.later_accepts = IF run > 1 /\ ret = "True" THEN @ + 1 ELSE @,
     !.visited = IF strategy = "direct" THEN Append(@, listing[pos]) ELSE @]

\* find_company_links: the candidate URLs in discovery order, or None when
\* there is none and a selector of helpers.item_selectors matches at least 5
\* elements
find_company_links(company_urls, helper_count) ==
  IF company_urls = <<>> /\ helper_count >= MinSimilarItems
  THEN [none |-> TRUE, urls |-> <<>>]
  ELSE [none |-> FALSE, urls |-> company_urls]

\* the branch taken as it would be if scrape_companies took the click-based
\* branch exactly when find_company_links returned None
BranchOnSentinel(found, item_count) ==
  IF ~found.none /\ found.urls # <<>> THEN "direct"
  ELSE IF found.none THEN "click"
  ELSE "single"

\* lines 848, 879, 907-920 and 1041: the branch scrape_companies takes on the
\* value find_company_links returned; None and [] are both falsy
Branch(found, item_count) ==
  IF ~found.none /\ found.urls # <<>> THEN "direct"
  ELSE IF item_count >= MinListItems THEN "click"
  ELSE "single"

\* main() up to page.goto(base_url): the session is constructed, the browser
\* is launched
MainStart ==
  /\ pc = "down"
  /\ run < MaxRuns
  /\ LET loaded == _load_existing_data(json_file)
     IN /\ companies_data' = loaded.companies_data
        /\ processed_companies' = loaded.processed_companies
  /\ pc' = "loading"
  /\ pos' = 0
  /\ run' = run + 1
  /\ result' = "none"
  /\ call' = NoCall
  /\ hist' = [hist EXCEPT
               !.fresh = json_file = JsonAbsent /\ csv_file = CsvAbsent,
               !.failed = {},
               !.cleared = {},
               !.dry = 0,
               !.clicked = {},
               !.reclicked = FALSE,
               !.raised = {},
               !.visited = <<>>]
  /\ browser' = "open"
  /\ strategy' = "none"
  /\ returned' = NotReturned
  /\ processed_count' = 0
  /\ current_count' = 0
  /\ scroll_attempts' = 0
  /\ page_url' = Blank
  /\ step' = "idle"
  /\ before_url' = Blank
  /\ close_visible' = {}
  /\ close_clicked' = 0
  /\ UNCHANGED <<json_file, csv_file, accepted, faults, site, fn_vars>>

\* lines 823-920: the listing loads, find_company_links runs and the branch is
\* taken; the click-based branch counts the elements again (line 929)
LoadListing ==
  /\ pc = "loading"
  /\ strategy' = Branch(find_company_links(listing, helper_items), items)
  /\ pc' = "scraping"
  /\ pos' = 1
  /\ IF strategy' = "click"
     THEN current_count' \in 0..MaxShown
     ELSE current_count' = 0
  /\ page_url' = landing
  /\ UNCHANGED <<store, site, run, hist, browser, returned, processed_count,
                 scroll_attempts, fn_vars, step, before_url, close_visible,
                 close_clicked>>

\* the failed load as it would be if the handler of main.py 45-47 returned
\* the records the scraper holds
ListingFailsReturnsLoaded ==
  /\ pc = "loading"
  /\ browser' = "closed"
  /\ returned' = Returned(companies_data)
  /\ pc' = "returned"
  /\ UNCHANGED <<store, site, pos, run, hist, strategy, click_vars,
                 fn_vars, step_vars>>

\* lines 813-823 or 908-909 raise: the finally clause closes the browser, the
\* exception leaves scrape_companies and main() returns [] (main.py 45-47)
ListingFails ==
  /\ pc = "loading"
  /\ browser' = "closed"
  /\ returned' = Returned(<<>>)
  /\ pc' = "returned"
  /\ UNCHANGED <<store, site, pos, run, hist, strategy, click_vars,
                 fn_vars, step_vars>>

\* the process exits after main() has returned
Exit ==
  /\ pc = "returned"
  /\ pc' = "down"
  /\ companies_data' = <<>>
  /\ processed_companies' = {}
  /\ result' = "none"
  /\ call' = NoCall
  /\ UNCHANGED <<json_file, csv_file, accepted, faults, main_vars>>

\* the loop of the branch taken has nothing left to visit
RunDone ==
  CASE strategy = "direct" -> pos > Len(listing)
    [] strategy = "click" -> scroll_attempts >= max_scroll_attempts
    [] strategy = "single" -> pos > 1
    [] OTHER -> FALSE

\* the run is about to visit the entity at position pos
InLoop ==
  /\ pc = "scraping"
  /\ ~RunDone
  /\ strategy = "click" => pos <= current_count

\* the URLs the surface can have once the entity at pos is reached: the link
\* followed, the listing itself, or after a click the listing (an overlay) or
\* a detail page
Surfaces ==
  CASE strategy = "direct" -> {listing[pos]}
    [] strategy = "click" -> {BaseUrl, U2}
    [] OTHER -> {BaseUrl}

\* the outcomes of the extraction from the page the loop is at
CurrentOutcomes ==
  IF InLoop THEN UNION {ExtractOutcomes(url) : url \in Surfaces} ELSE {}

\* lines 861 and 873-877: page.goto raises, the entity is skipped; lines 944
\* and 1013-1024: the click raises, the entity is skipped
VisitGotoFails ==
  /\ InLoop
  /\ strategy \in {"direct", "click"}
  /\ pos' = pos + 1
  /\ hist' = [hist EXCEPT
               !.skipped = IF run = 1 THEN @ \cup {pos} ELSE @,
               !.visited = IF strategy = "direct"
                           THEN Append(@, listing[pos]) ELSE @]
  /\ UNCHANGED <<pc, store, listing, run, nav_vars, fn_vars, step_vars>>

\* lines 861-871, 944-982 and 1044-1048 by the outcome of
\* _save_company_immediately; the runs of main() are explored without I/O
\* errors
VisitDuplicate(x) ==
  /\ InLoop
  /\ x \in CurrentOutcomes
  /\ SaveDuplicate(x.company)
  /\ pos' = pos + 1
  /\ hist' = HistYield(x, "False")
  /\ page_url' = IF strategy = "direct" THEN listing[pos] ELSE page_url
  /\ UNCHANGED <<pc, listing, run, nav_vars, fn_vars, step, before_url,
                 close_visible, close_clicked>>

VisitNew(x) ==
  /\ InLoop
  /\ x \in CurrentOutcomes
  /\ SaveNew(x.company)
  /\ pos' = pos + 1
  /\ hist' = HistYield(x, "True")
  /\ page_url' = IF strategy = "direct" THEN listing[pos] ELSE page_url
  /\ UNCHANGED <<pc, listing, run, nav_vars, fn_vars, step, before_url,
                 close_visible, close_clicked>>

\* lines 771-788: scroll_and_load_more returns True as soon as it has clicked
\* a visible load-more button, and otherwise reports whether the page grew;
\* an exception makes it return False (789-791), as a page that did not grow
scroll_and_load_more(button_visible, grew) ==
  IF button_visible THEN TRUE ELSE grew

\* the end of a pass as it would be if new content left the counter as it is
ClickPassNoReset ==
  /\ pc = "scraping"
  /\ strategy = "click"
  /\ ~RunDone
  /\ pos > current_count
  /\ \E more \in BOOLEAN, count \in 0..MaxShown :
       /\ processed_count' = current_count
       /\ scroll_attempts' = IF more THEN scroll_attempts
                             ELSE scroll_attempts + 1
       /\ IF scroll_attempts' >= max_scroll_attempts
          THEN UNCHANGED <<current_count, pos>>
          ELSE /\ current_count' = count
               /\ pos' = processed_count' + 1
       /\ hist' = [hist EXCEPT !.dry = IF more THEN 0 ELSE @ + 1]
  /\ UNCHANGED <<pc, store, site, run, browser, strategy, returned, fn_vars,
                 step_vars>>

\* lines 1026-1039 and 925-929: the elements located are exhausted,
\* scroll_and_load_more reports whether new content appeared, and unless the
\* loop ends the elements are located and counted again
ClickPass ==
  /\ pc = "scraping"
  /\ strategy = "click"
  /\ ~RunDone
  /\ pos > current_count
  /\ \E button_visible \in BOOLEAN, grew \in BOOLEAN, count \in 0..MaxShown :
       LET more == scroll_and_load_more(button_visible, grew)
       IN /\ processed_count' = current_count
          /\ scroll_attempts' = IF more THEN 0 ELSE scroll_attempts + 1
          /\ IF scroll_attempts' >= max_scroll_attempts
             THEN UNCHANGED <<current_count, pos>>
             ELSE /\ current_count' = count
                  /\ pos' = processed_count' + 1
          /\ hist' = [hist EXCEPT !.dry = IF more THEN 0 ELSE @ + 1]
  /\ UNCHANGED <<pc, store, site, run, browser, strategy, returned, fn_vars,
                 step_vars>>

\* the process is killed during the run, outside a commit
MainCrash ==
  /\ pc \in {"loading", "scraping"}
  /\ pc' = "down"
  /\ companies_data' = <<>>
  /\ processed_companies' = {}
  /\ result' = "none"
  /\ call' = NoCall
  /\ browser' = "none"
  /\ UNCHANGED <<json_file, csv_file, accepted, faults, listing, pos, run,
                 hist, helper_items, items, landing, strategy, returned,
                 click_vars,
                 fn_vars, step_vars>>

\* the end of the run as it would be without the finally clause of lines
\* 1050-1051: scrape_companies returns and the browser stays open
MainFinishNoClose ==
  /\ pc = "scraping"
  /\ RunDone
  /\ IF companies_data = <<>>
     THEN UNCHANGED <<json_file, csv_file>>
     ELSE /\ csv_file' = ReexportCsv(companies_data)
          /\ json_file' = json_dump(companies_data)
  /\ pc' = "down"
  /\ companies_data' = <<>>
  /\ processed_companies' = {}
  /\ result' = "none"
  /\ call' = NoCall
  /\ hist' = [hist EXCEPT
               !.clean1 = IF run = 1 THEN faults = 0 ELSE @,
               !.doc1 = IF run = 1 THEN json_file' ELSE @]
  /\ returned' = Returned(companies_data)
  /\ UNCHANGED <<accepted, faults, listing, pos, run, browser, helper_items,
                 items, landing, strategy, click_vars, fn_vars, step_vars>>

\* the loop is exhausted: the browser is closed, scrape_companies returns,
\* main() calls save_to_csv and print_summary and returns the list, the
\* process exits
MainFinish ==
  /\ pc = "scraping"
  /\ RunDone
  /\ IF companies_data = <<>>
     THEN UNCHANGED <<json_file, csv_file>>
     ELSE /\ csv_file' = ReexportCsv(companies_data)
          /\ json_file' = json_dump(companies_data)
  /\ pc' = "down"
  /\ companies_data' = <<>>
  /\ processed_companies' = {}
  /\ result' = "none"
  /\ call' = NoCall
  /\ hist' = [hist EXCEPT
               !.clean1 = IF run = 1 THEN faults = 0 ELSE @,
               !.doc1 = IF run = 1 THEN json_file' ELSE @]
  /\ browser' = "closed"
  /\ returned' = Returned(companies_data)
  /\ UNCHANGED <<accepted, faults, listing, pos, run, helper_items, items,
                 landing, strategy, click_vars, fn_vars, step_vars>>

\* runs over a listing with candidate URLs
InitMain ==
  /\ pc = "down"
  /\ companies_data = <<>>
  /\ processed_companies = {}
  /\ json_file = JsonAbsent
  /\ csv_file = CsvAbsent
  /\ result = "none"
  /\ call = NoCall
  /\ accepted = <<>>
  /\ faults = 0
  /\ listing \in Listings
  /\ pos = 0
  /\ run = 0
  /\ hist = NoHist
  /\ NoRun
  /\ NoFn
  /\ NoStep
  /\ landing = BaseUrl
  /\ helper_items = 0
  /\ items = 0

NextMain ==
  \/ MainStart
  \/ LoadListing
  \/ ListingFails
  \/ Exit
  \/ VisitGotoFails
  \/ \E x \in CurrentOutcomes : VisitDuplicate(x)
  \/ \E x \in CurrentOutcomes : VisitNew(x)
  \/ MainCrash
  \/ MainFinish

SpecMain == InitMain /\ [][NextMain]_vars

\* runs over a listing with candidate URLs that start on the files an earlier
\* session left: none; a document file of one record with a columnar file cut
\* off after its header, or with none (the session was killed in its first
\* commit); a document file cut off in its rewrite next to a columnar file
\* that holds the row of the record lost with it
InitResume ==
  /\ pc = "down"
  /\ companies_data = <<>>
  /\ processed_companies = {}
  /\ LET earlier == WithIndex(Company(<<"a">>, <<"w">>, U1), <<>>)
     IN \/ json_file = JsonAbsent /\ csv_file = CsvAbsent
        \/ /\ json_file = json_dump(<<earlier>>)
           /\ csv_file \in {CsvAbsent, [exists |-> TRUE, rows |-> <<CsvHeader>>]}
        \/ /\ json_file = JsonCorrupt
           /\ csv_file = [exists |-> TRUE,
                          rows |-> <<CsvHeader, CsvRow(earlier)>>]
  /\ result = "none"
  /\ call = NoCall
  /\ accepted = <<>>
  /\ faults = 0
  /\ listing \in Listings
  /\ pos = 0
  /\ run = MaxRuns - 1
  /\ hist = NoHist
  /\ NoRun
  /\ NoFn
  /\ NoStep
  /\ landing = BaseUrl
  /\ helper_items = 0
  /\ items = 0

SpecResume == InitResume /\ [][NextMain]_vars

\* listing pages without candidate URLs, by the elements their item selectors
\* match: none or as many as the threshold of find_company_links for a
\* selector of helpers.item_selectors, none or as many as the threshold of
\* scrape_companies for a selector of its own list
BareListings ==
  [helper_items : {0, MinSimilarItems}, items : {0, MinListItems}]

\* one run over any listing page: with candidate URLs, or with none and any
\* counts of item elements; the earlier runs are not explored
InitNav ==
  /\ pc = "down"
  /\ companies_data = <<>>
  /\ processed_companies = {}
  /\ json_file = JsonAbsent
  /\ csv_file = CsvAbsent
  /\ result = "none"
  /\ call = NoCall
  /\ accepted = <<>>
  /\ faults = 0
  /\ \/ listing \in Listings /\ helper_items = 0 /\ items = 0
     \/ /\ listing = <<>>
        /\ \E page \in BareListings :
             helper_items = page.helper_items /\ items = page.items
  /\ pos = 0
  /\ run = MaxRuns - 1
  /\ hist = NoHist
  /\ NoRun
  /\ NoFn
  /\ NoStep
  /\ landing = BaseUrl

NextNav ==
  \/ NextMain
  \/ ClickPass

SpecNav == InitNav /\ [][NextNav]_vars

\* ------------------------------------------ the click loop, step by step
\* the close selectors of lines 984-993, by position
NumCloseSelectors == 8

\* the sets of close selectors that can be visible on an overlay
VisibleSets ==
  {v \in SUBSET (1..NumCloseSelectors) : Cardinality(v) <= MaxVisible}

\* line 944: on the listing page the click opens an overlay (the URL stays),
\* loads a detail page, or raises; on another page the locator finds no
\* element and the click raises
ClickOutcomes ==
  IF page_url = landing
  THEN {[url |-> page_url, raised |-> FALSE], [url |-> U2, raised |-> FALSE],
        [url |-> page_url, raised |-> TRUE]}
  ELSE {[url |-> page_url, raised |-> TRUE]}

\* lines 938-945: the element at pos is clicked
Click ==
  /\ InLoop
  /\ strategy = "click"
  /\ step = "idle"
  /\ \E o \in ClickOutcomes :
       /\ page_url' = o.url
       /\ step' = IF o.raised THEN "raised" ELSE "clicked"
  /\ before_url' = page_url
  /\ hist' = [hist EXCEPT !.clicked = @ \cup {pos},
                          !.reclicked = @ \/ pos \in hist.clicked]
  /\ UNCHANGED <<pc, store, listing, pos, run, nav_vars, fn_vars,
                 close_visible, close_clicked>>

\* line 949: current_url != self.base_url
Navigated == page_url # BaseUrl

\* lines 950-965 and 974-982: the surface is extracted, tagged with page.url
\* if that is not self.base_url and with self.base_url otherwise, and handed
\* to the sink
Handle(x) ==
  /\ pc = "scraping"
  /\ strategy = "click"
  /\ step = "clicked"
  /\ x \in ExtractOutcomes(IF Navigated THEN page_url ELSE BaseUrl)
  /\ SaveDuplicate(x.company) \/ SaveNew(x.company)
  /\ step' = IF Navigated THEN "saved" ELSE "overlay"
  /\ UNCHANGED <<pc, listing, pos, run, hist, nav_vars, fn_vars, page_url,
                 before_url, close_visible, close_clicked>>

\* line 972: page.go_back() returns to the page the click left, or, when the
\* click left none, to the entry before the listing; or it raises
GoBack ==
  /\ pc = "scraping"
  /\ step = "saved"
  /\ \E raised \in BOOLEAN :
       IF raised
       THEN step' = "raised" /\ UNCHANGED <<page_url, pos, before_url>>
       ELSE /\ step' = "idle"
            /\ page_url' = IF page_url # before_url THEN before_url ELSE Blank
            /\ pos' = pos + 1
            /\ before_url' = Blank
  /\ UNCHANGED <<pc, store, listing, run, hist, nav_vars, fn_vars,
                 close_visible, close_clicked>>

\* lines 995-1007: the overlay shows some of its close buttons; the close
\* selectors are tried in order, the first one whose element is visible is
\* clicked and ends the loop
Dismiss ==
  /\ pc = "scraping"
  /\ step = "overlay"
  /\ close_visible' \in VisibleSets
  /\ close_clicked' =
       IF close_visible' = {} THEN 0
       ELSE CHOOSE k \in close_visible' : \A j \in close_visible' : k <= j
  /\ step' = "closed"
  /\ UNCHANGED <<pc, store, listing, pos, run, hist, nav_vars, fn_vars,
                 page_url, before_url>>

\* lines 1009-1011: the Escape key is pressed and the loop moves on
PressEscape ==
  /\ pc = "scraping"
  /\ step = "closed"
  /\ step' = "idle"
  /\ pos' = pos + 1
  /\ close_visible' = {}
  /\ close_clicked' = 0
  /\ before_url' = Blank
  /\ UNCHANGED <<pc, store, listing, run, hist, nav_vars, fn_vars, page_url>>

\* lines 1013-1024: the handler of the loop body navigates to self.base_url
\* if the page is not there, and the loop moves on
Recover ==
  /\ pc = "scraping"
  /\ step = "raised"
  /\ page_url' = IF page_url # BaseUrl THEN landing ELSE page_url
  /\ step' = "idle"
  /\ pos' = pos + 1
  /\ before_url' = Blank
  /\ hist' = [hist EXCEPT !.raised = @ \cup {pos}]
  /\ UNCHANGED <<pc, store, listing, run, nav_vars, fn_vars, close_visible,
                 close_clicked>>

\* one run over a listing page without candidate URLs on which an item
\* selector of scrape_companies matches a list; the browser reports the
\* listing under the URL given or under another
InitClick ==
  /\ pc = "down"
  /\ companies_data = <<>>
  /\ processed_companies = {}
  /\ json_file = JsonAbsent
  /\ csv_file = CsvAbsent
  /\ result = "none"
  /\ call = NoCall
  /\ accepted = <<>>
  /\ faults = 0
  /\ listing = <<>>
  /\ helper_items = 0
  /\ items = MinListItems
  /\ landing \in {BaseUrl, BaseUrlReported}
  /\ pos = 0
  /\ run = MaxRuns - 1
  /\ hist = NoHist
  /\ NoRun
  /\ NoFn
  /\ NoStep

NextClick ==
  \/ MainStart
  \/ LoadListing
  \/ Click
  \/ \E x \in {y \in ExtractOutcomes(page_url) : ~y.threw} : Handle(x)
  \/ GoBack
  \/ Dismiss
  \/ PressEscape
  \/ Recover
  \/ ClickPass
  \/ MainFinish

SpecClick == InitClick /\ [][NextClick]_vars

\* the run is one task: a step that can be taken is taken, every await
\* returns or raises within the timeout of the page
SpecClickFair == SpecClick /\ WF_vars(NextClick)

\* ------------------------------------------------------------ URL strings
\* A URL is a sequence of tokens: a scheme with its colon is one token, every
\* other token is one character, or a query "?k", or a fragment "#f".
SchemeToks == {"http:", "https:", "HTTP:", "ftp:", "mailto:", "tel:"}
QueryToks == {"?k"}
FragToks == {"#f"}

\* urllib.parse.uses_relative and uses_netloc, as far as SchemeToks goes; ""
\* is the absent scheme
UsesRelative == {"", "http:", "https:", "ftp:"}
UsesNetloc == {"", "http:", "https:", "ftp:"}

\* s.startswith(p)
StartsWith(s, p) == Len(s) >= Len(p) /\ SubSeq(s, 1, Len(p)) = p

\* "t" in s, for a one-token t
Contains(s, t) == \E i \in 1..Len(s) : s[i] = t

\* position of the first token of s at or after from that lies in toks;
\* Len(s) + 1 if there is none
FirstIn(s, from, toks) ==
  LET I == {i \in from..Len(s) : s[i] \in toks}
  IN IF I = {} THEN Len(s) + 1 ELSE CHOOSE i \in I : \A j \in I : i <= j

\* s.split(sep), for a one-token sep
RECURSIVE Split(_, _)
Split(s, sep) ==
  LET i == FirstIn(s, 1, {sep})
  IN IF i > Len(s) THEN <<s>>
     ELSE <<SubSeq(s, 1, i - 1)>> \o Split(SubSeq(s, i + 1, Len(s)), sep)

\* urllib.parse.urlsplit(url, scheme): the scheme is lower-cased, the
\* authority follows "//" and ends at the next "/", "?" or "#"
urlsplit(url, scheme) ==
  LET has == url # <<>> /\ Head(url) \in SchemeToks
      rest == IF has THEN Tail(url) ELSE url
      f == FirstIn(rest, 1, FragToks)
      nofrag == SubSeq(rest, 1, f - 1)
      q == FirstIn(nofrag, 1, QueryToks)
      noquery == SubSeq(nofrag, 1, q - 1)
      net == StartsWith(noquery, <<"/", "/">>)
      d == IF net THEN FirstIn(noquery, 3, {"/"}) ELSE 1
  IN [scheme |-> IF has THEN LowerTok(Head(url)) ELSE scheme,
      netloc |-> IF net THEN SubSeq(noquery, 3, d - 1) ELSE <<>>,
      path |-> SubSeq(noquery, d, Len(noquery)),
      query |-> SubSeq(nofrag, q, Len(nofrag)),
      fragment |-> SubSeq(rest, f, Len(rest))]

\* urllib.parse.urlunsplit
urlunsplit(p) ==
  LET slash == IF p.path # <<>> /\ Head(p.path) # "/" THEN <<"/">> ELSE <<>>
      located ==
        IF \/ p.netloc # <<>>
           \/ /\ p.scheme # ""
              /\ p.scheme \in UsesNetloc
              /\ ~StartsWith(p.path, <<"/", "/">>)
        THEN <<"/", "/">> \o p.netloc \o slash \o p.path
        ELSE p.path
  IN (IF p.scheme # "" THEN <<p.scheme>> ELSE <<>>)
       \o located \o p.query \o p.fragment

Dot == <<".">>
DotDot == <<".", ".">>

\* the loop of urljoin over the segments: ".." drops the last segment kept
\* (nothing if there is none), "." is skipped
RECURSIVE ResolveSegments(_, _)
ResolveSegments(segments, resolved_path) ==
  IF segments = <<>> THEN resolved_path
  ELSE LET seg == Head(segments)
       IN ResolveSegments(Tail(segments),
            IF seg = DotDot
            THEN SubSeq(resolved_path, 1, Len(resolved_path) - 1)
            ELSE IF seg = Dot THEN resolved_path
            ELSE Append(resolved_path, seg))

\* the path urljoin computes from the path of the base and a non-empty path
ResolvePath(bpath, path) ==
  LET bp == Split(bpath, "/")
      base_parts == IF bp[Len(bp)] # <<>> THEN SubSeq(bp, 1, Len(bp) - 1)
                    ELSE bp
      joined == base_parts \o Split(path, "/")
      segments ==
        IF Head(path) = "/" THEN Split(path, "/")
        ELSE IF Len(joined) <= 2 THEN joined
        ELSE <<Head(joined)>>
               \o SelectSeq(SubSeq(joined, 2, Len(joined) - 1),
                            LAMBDA seg : seg # <<>>)
               \o <<joined[Len(joined)]>>
      resolved == ResolveSegments(segments, <<>>)
      closed == IF segments[Len(segments)] \in {Dot, DotDot}
                THEN Append(resolved, <<>>) ELSE resolved
  IN IF Join(<<"/">>, closed) = <<>> THEN <<"/">>
     ELSE Join(<<"/">>, closed)

\* urllib.parse.urljoin(base, url)
urljoin(base, url) ==
  IF base = <<>> THEN url
  ELSE IF url = <<>> THEN base
  ELSE
    LET b == urlsplit(base, "")
        u == urlsplit(url, b.scheme)
        netloc == IF u.scheme \in UsesNetloc THEN b.netloc ELSE u.netloc
    IN IF u.scheme # b.scheme \/ u.scheme \notin UsesRelative THEN url
       ELSE IF u.scheme \in UsesNetloc /\ u.netloc # <<>> THEN urlunsplit(u)
       ELSE IF u.path = <<>>
       THEN urlunsplit([scheme |-> u.scheme, netloc |-> netloc,
                        path |-> b.path,
                        query |-> IF u.query # <<>> THEN u.query
                                  ELSE b.query,
                        fragment |-> u.fragment])
       ELSE urlunsplit([scheme |-> u.scheme, netloc |-> netloc,
                        path |-> ResolvePath(b.path, u.path),
                        query |-> u.query, fragment |-> u.fragment])

\* normalize_url without the bare-domain rule: every scheme-less input is
\* joined to the base
NormalizeRelativeFirst(url, base_url) ==
  IF url = <<>> \/ url = None THEN None
  ELSE IF StartsWith(url, <<"/", "/">>) THEN <<"https:">> \o url
  ELSE IF StartsWith(url, <<"/">>) THEN urljoin(base_url, url)
  ELSE IF ~ \/ StartsWith(url, <<"http:", "/", "/">>)
            \/ StartsWith(url, <<"https:", "/", "/">>)
       THEN urljoin(base_url, url)
  ELSE url

\* normalize_url as it would be if the bare-domain rule made the input
\* protocol-relative instead of giving it a scheme
NormalizeDomainSchemeless(url, base_url) ==
  IF url = <<>> \/ url = None THEN None
  ELSE IF StartsWith(url, <<"/", "/">>) THEN <<"https:">> \o url
  ELSE IF StartsWith(url, <<"/">>) THEN urljoin(base_url, url)
  ELSE IF ~ \/ StartsWith(url, <<"http:", "/", "/">>)
            \/ StartsWith(url, <<"https:", "/", "/">>)
       THEN IF Contains(url, ".") /\ ~StartsWith(url, <<".">>)
            THEN <<"/", "/">> \o url
            ELSE urljoin(base_url, url)
  ELSE url

\* UniversalCompanyScraper.normalize_url, self.base_url given
normalize_url(url, base_url) ==
  IF url = <<>> \/ url = None THEN None
  ELSE IF StartsWith(url, <<"/", "/">>) THEN <<"https:">> \o url
  ELSE IF StartsWith(url, <<"/">>) THEN urljoin(base_url, url)
  ELSE IF ~ \/ StartsWith(url, <<"http:", "/", "/">>)
            \/ StartsWith(url, <<"https:", "/", "/">>)
       THEN IF Contains(url, ".") /\ ~StartsWith(url, <<".">>)
            THEN <<"https:", "/", "/">> \o url
            ELSE urljoin(base_url, url)
  ELSE url

\* -------------------------------------------------- the pure functions
\* the function variables aside, the state in which no session exists
Detached ==
  /\ pc = "down"
  /\ companies_data = <<>>
  /\ processed_companies = {}
  /\ json_file = JsonAbsent
  /\ csv_file = CsvAbsent
  /\ result = "none"
  /\ call = NoCall
  /\ accepted = <<>>
  /\ faults = 0
  /\ listing = <<>>
  /\ pos = 0
  /\ run = 0
  /\ hist = NoHist
  /\ NoRun
  /\ NoStep
  /\ landing = BaseUrl
  /\ helper_items = 0
  /\ items = 0

\* the hrefs and src attributes normalize_url is given: an optional prefix,
\* up to MaxSegments path segments, an optional query or fragment
PathSegments == {<<>>, <<"p">>, <<"e", ".", "c">>, Dot, DotDot}

UrlPrefixes ==
  { <<>>, <<"/">>, <<"/", "/">>,
    <<"http:", "/", "/">>, <<"https:", "/", "/">>, <<"HTTP:", "/", "/">>,
    <<"ftp:", "/", "/">>, <<"mailto:">>, <<"tel:">> }

UrlSuffixes == {<<>>, <<"?k">>, <<"#f">>}

UrlPaths ==
  { Join(<<"/">>, segs) :
      segs \in UNION {[1..n -> PathSegments] : n \in 1..MaxSegments} }

UrlInputs ==
  {None} \cup
  { pre \o path \o suf :
      pre \in UrlPrefixes, path \in UrlPaths, suf \in UrlSuffixes }

\* the URLs main() is given: self.base_url
Bases ==
  { <<"https:", "/", "/", "e", ".", "c", "/", "d", "/", "l">>,
    <<"https:", "/", "/", "e", ".", "c">>,
    <<"http:", "/", "/", "e", ".", "c", "/", "d", "/">> }

UrlArgs == [fn : {"normalize_url"}, url : UrlInputs, base_url : Bases]

\* one call of normalize_url
ApplyNormalize ==
  /\ arg.fn = "normalize_url"
  /\ ~res.done
  /\ res' = [done |-> TRUE, value |-> normalize_url(arg.url, arg.base_url)]
  /\ UNCHANGED <<arg, store, accepted, faults, pc, listing, pos, run, hist,
                 nav_vars, step_vars>>

\* a second call of normalize_url, on what the first call returned
ApplyNormalizeAgain ==
  /\ arg.fn = "normalize_url"
  /\ res.done
  /\ "again" \notin DOMAIN res
  /\ res' = [done |-> TRUE, value |-> res.value,
             again |-> normalize_url(res.value, arg.base_url)]
  /\ UNCHANGED <<arg, store, accepted, faults, pc, listing, pos, run, hist,
                 nav_vars, step_vars>>

\* ----------------------------------------------- _categorize_social_media
\* A link is a sequence of tokens; a host name is one token.  The platform
\* names of the if/elif chain that the text of a lower-case token contains:
\* "pinterest.com" contains "t.co".
PlatformsIn(t) ==
  CASE t = "facebook.com" -> {"facebook.com"}
    [] t = "fb.me" -> {"fb.me"}
    [] t = "instagram.com" -> {"instagram.com"}
    [] t = "linkedin.com" -> {"linkedin.com"}
    [] t = "twitter.com" -> {"twitter.com"}
    [] t = "x.com" -> {"x.com"}
    [] t = "pinterest.com" -> {"t.co"}
    [] OTHER -> {}

\* any(platform in url_lower for platform in platforms)
AnyPlatformIn(url_lower, platforms) ==
  \E i \in 1..Len(url_lower) : PlatformsIn(url_lower[i]) \cap platforms # {}

FacebookNames == {"facebook.com", "fb.com", "fb.me"}
InstagramNames == {"instagram.com", "instagr.am"}
LinkedinNames == {"linkedin.com", "lnkd.in"}
TwitterNames == {"twitter.com", "t.co", "x.com"}

\* the dictionary the function starts from
NoSocials ==
  [facebook |-> <<>>, instagram |-> <<>>, linkedin |-> <<>>,
   twitter |-> <<>>, other_socials |-> <<>>]

\* one iteration in which a slot takes the link although it holds one
PlaceLast(categorized, social_url) ==
  IF social_url = <<>> \/ social_url = None THEN categorized
  ELSE IF AnyPlatformIn(Lower(social_url), FacebookNames)
  THEN [categorized EXCEPT !.facebook = social_url]
  ELSE IF AnyPlatformIn(Lower(social_url), InstagramNames)
  THEN [categorized EXCEPT !.instagram = social_url]
  ELSE IF AnyPlatformIn(Lower(social_url), LinkedinNames)
  THEN [categorized EXCEPT !.linkedin = social_url]
  ELSE IF AnyPlatformIn(Lower(social_url), TwitterNames)
  THEN [categorized EXCEPT !.twitter = social_url]
  ELSE [categorized EXCEPT !.other_socials = Append(@, social_url)]

\* one iteration of the loop over socials_list
Place(categorized, social_url) ==
  IF social_url = <<>> \/ social_url = None THEN categorized
  ELSE IF AnyPlatformIn(Lower(social_url), FacebookNames)
  THEN [categorized EXCEPT
          !.facebook = IF @ = <<>> THEN social_url ELSE @]
  ELSE IF AnyPlatformIn(Lower(social_url), InstagramNames)
  THEN [categorized EXCEPT
          !.instagram = IF @ = <<>> THEN social_url ELSE @]
  ELSE IF AnyPlatformIn(Lower(social_url), LinkedinNames)
  THEN [categorized EXCEPT
          !.linkedin = IF @ = <<>> THEN social_url ELSE @]
  ELSE IF AnyPlatformIn(Lower(social_url), TwitterNames)
  THEN [categorized EXCEPT
          !.twitter = IF @ = <<>> THEN social_url ELSE @]
  ELSE [categorized EXCEPT !.other_socials = Append(@, social_url)]

RECURSIVE PlaceAll(_, _)
PlaceAll(socials_list, categorized) ==
  IF socials_list = <<>> THEN categorized
  ELSE PlaceAll(Tail(socials_list), Place(categorized, Head(socials_list)))

\* UniversalCompanyScraper._categorize_social_media
_categorize_social_media(socials_list) ==
  IF socials_list = None \/ socials_list = <<>> THEN NoSocials
  ELSE [PlaceAll(socials_list, NoSocials) EXCEPT
          !.other_socials = Join(<<" ", "|", " ">>, @)]

\* the links the extractor collects, the empty string among them
SocialUrls ==
  { <<>>, <<"facebook.com">>, <<"FB.ME", "/", "p">>, <<"instagram.com">>,
    <<"linkedin.com">>, <<"twitter.com">>, <<"x.com", "/", "p">>,
    <<"pinterest.com">>, <<"youtube.com">>,
    <<"facebook.com", "/", "x.com">> }

SocialArgs ==
  [fn : {"_categorize_social_media"},
   socials_list :
     {None} \cup UNION {[1..n -> SocialUrls] : n \in 0..MaxSocials}]

\* one call of _categorize_social_media
ApplyCategorize ==
  /\ arg.fn = "_categorize_social_media"
  /\ ~res.done
  /\ res' = [done |-> TRUE,
             value |-> _categorize_social_media(arg.socials_list)]
  /\ UNCHANGED <<arg, store, accepted, faults, pc, listing, pos, run, hist,
                 nav_vars, step_vars>>

\* ------------------------------------------------ extract_phone_from_text
\* A text is a sequence of characters.  helpers.phone_patterns is a list of
\* regular expressions kept outside these sources; the patterns it may hold
\* are named here:  "d10" is \d{10},  "ds10" is [\d\s]{10},  "dotted" is
\* \d{3}\.\d{3}\.\d{4},  "local" is \d{3}-\d{4}.
PhonePatterns == {"d10", "ds10", "dotted", "local"}

IsDigit(t) == t \in {"1", "2"}

\* the length of the strings a pattern matches
PatternLen(pattern) ==
  CASE pattern = "dotted" -> 12
    [] pattern = "local" -> 8
    [] OTHER -> 10

\* re.fullmatch(pattern, s), for s of that length
FullMatch(pattern, s) ==
  \A i \in 1..Len(s) :
    CASE pattern = "d10" -> IsDigit(s[i])
      [] pattern = "ds10" -> IsDigit(s[i]) \/ s[i] = " "
      [] pattern = "dotted" ->
           IF i \in {4, 8} THEN s[i] = "." ELSE IsDigit(s[i])
      [] pattern = "local" -> IF i = 4 THEN s[i] = "-" ELSE IsDigit(s[i])

\* re.search(pattern, text): the leftmost match as match.group(), or None
re_search(pattern, text) ==
  LET n == PatternLen(pattern)
      I == {i \in 1..(Len(text) - n + 1) :
              FullMatch(pattern, SubSeq(text, i, i + n - 1))}
      first == CHOOSE i \in I : \A j \in I : i <= j
  IN IF I = {} THEN None ELSE SubSeq(text, first, first + n - 1)

\* re.sub(r"[^\d\+\-\s\(\)]", "", phone)
CleanPhone(phone) ==
  SelectSeq(phone, LAMBDA t : IsDigit(t) \/ t \in {"+", "-", " ", "(", ")"})

\* the loop over the patterns
RECURSIVE TryPatterns(_, _)
TryPatterns(patterns, text) ==
  IF patterns = <<>> THEN None
  ELSE LET match == re_search(Head(patterns), text)
           phone == CleanPhone(match)
       IN IF match # None /\ Len(phone) >= MinPhoneLength
          THEN Strip(phone)
          ELSE TryPatterns(Tail(patterns), text)

\* UniversalCompanyScraper.extract_phone_from_text, helpers.phone_patterns
\* given
extract_phone_from_text(text, phone_patterns) ==
  IF text = None \/ text = <<>> THEN None
  ELSE TryPatterns(phone_patterns, text)

Digits(n) == [i \in 1..n |-> "1"]

\* the texts the function is given: the text of a tel: link or of the body
PhoneTexts ==
  { None, <<>>, <<"x", "x">>,
    <<"x">> \o Digits(10) \o <<"x">>,
    <<"x", " ">> \o Digits(8) \o <<" ", "x">>,
    <<"x", " ">> \o Digits(10) \o <<" ", "x">>,
    Digits(3) \o <<"-">> \o Digits(4) \o <<" ", "x", " ">>
      \o Digits(3) \o <<".">> \o Digits(3) \o <<".">> \o Digits(4) }

PhoneArgs ==
  [fn : {"extract_phone_from_text"},
   text : PhoneTexts,
   phone_patterns : UNION {[1..n -> PhonePatterns] : n \in 0..MaxPatterns}]

\* one call of extract_phone_from_text
ApplyPhone ==
  /\ arg.fn = "extract_phone_from_text"
  /\ ~res.done
  /\ res' = [done |-> TRUE,
             value |-> extract_phone_from_text(arg.text, arg.phone_patterns)]
  /\ UNCHANGED <<arg, store, accepted, faults, pc, listing, pos, run, hist,
                 nav_vars, step_vars>>

\* ------------------------------------------- the functions on their inputs
\* ------------------------------- extract_company_details: the website URL
\* helpers.social_domains is kept outside these sources: it is taken to hold
\* the platform names of _categorize_social_media
SocialDomains ==
  FacebookNames \cup InstagramNames \cup LinkedinNames \cup TwitterNames

\* UniversalCompanyScraper.is_social_url
is_social_url(url) ==
  IF url = <<>> \/ url = None THEN FALSE
  ELSE AnyPlatformIn(Lower(url), SocialDomains)

\* lines 596-609: the tests an href and its normalized form pass to become
\* the website URL
AcceptsWebsite(website_url, normalized_url, current_url) ==
  /\ website_url # <<>>
  /\ website_url # None
  /\ ~Contains(website_url, "expo")
  /\ normalized_url # None
  /\ ~is_social_url(normalized_url)
  /\ normalized_url # current_url
  /\ ~StartsWith(current_url, normalized_url)

\* lines 587-619: the website URL extract_company_details sets from the
\* hrefs the selectors of helpers.website_selectors yield, in order; None
\* when no href passes
RECURSIVE ExtractWebsite(_, _, _)
ExtractWebsite(hrefs, base_url, current_url) ==
  IF hrefs = <<>> THEN None
  ELSE LET chosen ==
             { n \in {normalize_url(Head(hrefs), base_url)} :
                 AcceptsWebsite(Head(hrefs), n, current_url) }
       IN IF chosen # {} THEN CHOOSE n \in chosen : TRUE
          ELSE ExtractWebsite(Tail(hrefs), base_url, current_url)

\* the hrefs of a detail page: none, a path on the site, the company's own
\* site, a link that names the directory, a social link, the page itself and
\* the section the page lies in
WebsiteHrefs ==
  { <<>>, <<"/", "p">>, <<"/", "d", "/", "p">>, <<"/", "d">>,
    <<"https:", "/", "/", "w", ".", "c">>,
    <<"https:", "/", "/", "expo", ".", "c", "/", "p">>,
    <<"https:", "/", "/", "facebook.com", "/", "p">> }

\* a site and a detail page of it, on a host that names the directory and on
\* one that does not
WebsitePages ==
  { [base_url |-> <<"https:", "/", "/", h, ".", "c">>,
     current_url |-> <<"https:", "/", "/", h, ".", "c", "/", "d", "/", "p">>] :
      h \in {"e", "expo"} }

WebsiteArgs ==
  { [fn |-> "extract_website", hrefs |-> hs, base_url |-> pg.base_url,
     current_url |-> pg.current_url] :
      hs \in UNION {[1..n -> WebsiteHrefs] : n \in 0..MaxLinks},
      pg \in WebsitePages }

\* the website part of one call of extract_company_details
ApplyWebsite ==
  /\ arg.fn = "extract_website"
  /\ ~res.done
  /\ res' = [done |-> TRUE,
             value |-> ExtractWebsite(arg.hrefs, arg.base_url,
                                      arg.current_url)]
  /\ UNCHANGED <<arg, store, accepted, faults, pc, listing, pos, run, hist,
                 nav_vars, step_vars>>

\* ---------------------------------------------- __init__: the file names
\* str.replace(old, new): every occurrence, left to right, not overlapping
RECURSIVE Replace(_, _, _)
Replace(s, old, new) ==
  IF s = <<>> THEN <<>>
  ELSE IF StartsWith(s, old)
       THEN new \o Replace(SubSeq(s, Len(old) + 1, Len(s)), old, new)
       ELSE <<Head(s)>> \o Replace(Tail(s), old, new)

\* lines 39-42 and 48-49: self.domain followed by "_companies", the names of
\* the two files without their extensions
Slug(base_url) ==
  Replace(Replace(urlsplit(base_url, "").netloc, <<"www", ".">>, <<>>),
          <<".">>, <<"_">>)
  \o <<"_companies">>

\* the sites: hosts of up to MaxLabels labels
SlugArgs ==
  { [fn |-> "slug",
     base_url |-> <<"https:", "/", "/">> \o Join(<<".">>, labels)
                    \o <<"/", "l">>] :
      labels \in UNION { [1..n -> {<<"www">>, <<"a">>, <<"c">>}] :
                           n \in 1..MaxLabels } }

\* the construction of a scraper, as far as the file names go
ApplySlug ==
  /\ arg.fn = "slug"
  /\ ~res.done
  /\ res' = [done |-> TRUE, value |-> Slug(arg.base_url)]
  /\ UNCHANGED <<arg, store, accepted, faults, pc, listing, pos, run, hist,
                 nav_vars, step_vars>>

InitFn ==
  /\ Detached
  /\ arg \in UrlArgs \cup SocialArgs \cup PhoneArgs \cup WebsiteArgs
              \cup SlugArgs
  /\ res = [done |-> FALSE]

NextFn ==
  \/ ApplyNormalize
  \/ ApplyNormalizeAgain
  \/ ApplyCategorize
  \/ ApplyPhone
  \/ ApplyWebsite
  \/ ApplySlug

SpecFn == InitFn /\ [][NextFn]_vars

\* ------------------------------------- find_company_links on its anchors
\* helpers.skip_patterns and helpers.detail_patterns are kept outside these
\* sources: the skip patterns are taken to name the mail and telephone
\* schemes and the fragment, the detail patterns the path segment "p"
SkipPatterns == {"mailto:", "tel:", "#f"}
DetailPatterns == {"p"}

\* any(pattern in s for pattern in patterns), and the same with re.search
AnyPatternIn(s, patterns) == \E i \in 1..Len(s) : s[i] \in patterns

\* lines 694-704 with an href kept whether its normalized form was seen
\* before or not
KeptSeenOrNot(href, normalized_url, found_urls) ==
  /\ href # <<>>
  /\ ~AnyPatternIn(Lower(href), SkipPatterns)
  /\ normalized_url # None

\* lines 694-704: the href is not empty, holds no skip pattern in its
\* lower-case form, and its normalized form is new to found_urls
Kept(href, normalized_url, found_urls) ==
  /\ href # <<>>
  /\ ~AnyPatternIn(Lower(href), SkipPatterns)
  /\ normalized_url # None
  /\ normalized_url \notin found_urls

\* the href attributes of the anchors of a listing page
Hrefs ==
  { <<>>, <<"/", "p">>, <<"p">>, <<"/", "d">>, <<"mailto:", "p">>,
    <<"https:", "/", "/", "e", ".", "c", "/", "p">> }

\* the URL of the listing page the anchors are on
ListingBase == <<"https:", "/", "/", "e", ".", "c", "/", "d", "/", "l">>

\* before the one run over a listing page with up to MaxAnchors anchors; the
\* files are absent, or an earlier session left the company of one page
InitLinks ==
  /\ pc = "down"
  /\ companies_data = <<>>
  /\ processed_companies = {}
  /\ LET earlier ==
           << [Company(<<"a">>, <<"w">>,
                       <<"https:", "/", "/", "e", ".", "c", "/", "p">>)
                 EXCEPT !.company_index = 1] >>
     IN \/ json_file = JsonAbsent /\ csv_file = CsvAbsent
        \/ json_file = json_dump(earlier) /\ csv_file = ReexportCsv(earlier)
  /\ result = "none"
  /\ call = NoCall
  /\ accepted = <<>>
  /\ faults = 0
  /\ arg \in [fn : {"find_company_links"},
               hrefs : UNION {[1..n -> Hrefs] : n \in 0..MaxAnchors},
               base_url : {ListingBase}]
  /\ res = [done |-> FALSE, i |-> 1, found_urls |-> {},
            company_urls |-> <<>>]
  /\ listing = <<>>
  /\ helper_items = 0
  /\ items = 0
  /\ landing = BaseUrl
  /\ pos = 0
  /\ run = MaxRuns - 1
  /\ hist = NoHist
  /\ NoRun
  /\ NoStep

\* lines 691-714: one pass of the loop of find_company_links over the
\* anchors, in the order the selectors of helpers.company_selectors and the
\* locator yield them; res holds the locals of the call
ReadAnchor ==
  /\ pc = "loading"
  /\ ~res.done
  /\ res.i <= Len(arg.hrefs)
  /\ \E normalized_url \in {normalize_url(arg.hrefs[res.i], arg.base_url)} :
       LET kept == Kept(arg.hrefs[res.i], normalized_url, res.found_urls)
       IN res' = [res EXCEPT
                   !.i = @ + 1,
                   !.found_urls =
                     IF kept THEN @ \cup {normalized_url} ELSE @,
                   !.company_urls =
                     IF kept /\ AnyPatternIn(normalized_url, DetailPatterns)
                     THEN Append(@, normalized_url) ELSE @]
  /\ UNCHANGED <<arg, store, accepted, faults, pc, listing, pos, run, hist,
                 nav_vars, step_vars>>

\* lines 742-858: find_company_links returns the list and the branch is
\* taken on it
LoadAnchors ==
  /\ pc = "loading"
  /\ ~res.done
  /\ res.i > Len(arg.hrefs)
  /\ res' = [res EXCEPT !.done = TRUE]
  /\ listing' = res.company_urls
  /\ strategy' = Branch(find_company_links(listing', helper_items), items)
  /\ pc' = "scraping"
  /\ pos' = 1
  /\ current_count' = 0
  /\ page_url' = landing
  /\ UNCHANGED <<arg, store, helper_items, items, landing, run, hist, browser,
                 returned, processed_count, scroll_attempts, step,
                 before_url, close_visible, close_clicked>>

NextLinks ==
  \/ MainStart
  \/ ReadAnchor
  \/ LoadAnchors
  \/ VisitGotoFails
  \/ \E x \in {y \in CurrentOutcomes : ~y.threw} : VisitDuplicate(x)
  \/ \E x \in {y \in CurrentOutcomes : ~y.threw} : VisitNew(x)
  \/ MainFinish

SpecLinks == InitLinks /\ [][NextLinks]_vars

\* ------------------------------------------------------------ properties
\* the identity triple of a record after trimming and case-folding
Triple(company_data) ==
  <<NormField(company_data.name), NormField(company_data.website_url),
    NormField(company_data.source_url)>>

NoTwoEqualKeys(data) ==
  LET keys == [i \in 1..Len(data) |-> _generate_company_key(data[i])]
  IN \A i, j \in 1..Len(data) : i < j => keys[i] # keys[j]

\* a URL without its trailing slash, query string or fragment
RECURSIVE UrlStem(_)
UrlStem(url) ==
  IF url # <<>> /\ url[Len(url)] \in {"/", "?q", "#f"}
  THEN UrlStem(SubSeq(url, 1, Len(url) - 1))
  ELSE url

\* UniversalCompanyScraper has no attribute is_source_url_processed: the call
\* the test script makes raises AttributeError whatever the URL
is_source_url_processed(url) == "AttributeError"

\* C1: in every reachable state no two records of the in-memory list, and no
\* two records of the document file, have equal composite dedup keys.
C1_UniqueKeys ==
  /\ NoTwoEqualKeys(companies_data)
  /\ json_file.data # companies_data => NoTwoEqualKeys(json_file.data)

\* a session resumed after a crash in a commit holds two records and has just
\* rejected a duplicate
C1_Witness ==
  /\ pc = "idle"
  /\ hist.crash_in_commit
  /\ ~hist.io_error
  /\ Len(companies_data) = 2
  /\ json_file = json_dump(companies_data)
  /\ result = "False"

\* C2: after a crash during a commit, restart and reload, every record
\* committed before is in the in-memory list, and is in the document file after
\* a later accept.
C2_CommittedSurviveCrash ==
  (hist.crash_in_commit /\ ~hist.io_error /\ pc = "idle") =>
    /\ \A r \in Range(accepted) : r \in Range(companies_data)
    /\ result = "True" => \A r \in Range(accepted) : r \in Range(json_file.data)

\* C4: isDuplicate(candidate) is true exactly when some record of the list has
\* the same name, websiteUrl and sourceUrl after trimming and case-folding.
C4_DuplicateIffSameTriple ==
  pc = "idle" =>
    \A c \in Candidates :
      _is_duplicate_company(c, processed_companies)
        <=> \E r \in Range(companies_data) : Triple(r) = Triple(c)

\* C5: once a company with source_url U is saved, a company with the same
\* source_url, a different name and a different website_url is never saved.
C5_SameSourceRejected ==
  \A i, j \in 1..Len(companies_data) :
    (i < j /\ companies_data[i].source_url = companies_data[j].source_url)
      => ~ /\ companies_data[i].name # companies_data[j].name
           /\ companies_data[i].website_url # companies_data[j].website_url

\* C6: once a company with source_url U is saved, is_source_url_processed is
\* true for U and its variants (query string, fragment, trailing slash), false
\* for a URL never saved, and no company carrying a variant of U is saved.
C6_VariantUrlsProcessed ==
  (pc = "idle" /\ companies_data # <<>>) =>
    /\ \A c \in Candidates :
         is_source_url_processed(c.source_url) =
           IF \E r \in Range(companies_data) :
                UrlStem(r.source_url) = UrlStem(c.source_url)
           THEN "True" ELSE "False"
    /\ \A i, j \in 1..Len(companies_data) :
         i < j =>
           UrlStem(companies_data[i].source_url)
             # UrlStem(companies_data[j].source_url)

\* C7: in a session started from an empty store, the records for which accept
\* returned true carry the index values 1..N in acceptance order.
C7_DenseIndices ==
  (hist.fresh /\ pc = "idle") =>
    \A i \in 1..Len(accepted) : accepted[i].company_index = i

\* C9: the document file and the columnar file hold exactly the records for
\* which accept returned true, in acceptance order, also after I/O errors.
C9_FilesHoldAccepted ==
  ~hist.crash_in_commit =>
    /\ json_file.data = accepted
    /\ DataRows(csv_file) = [i \in 1..Len(accepted) |-> CsvRow(accepted[i])]

\* C10: over any number of crashes and resumed runs the columnar file has as
\* many data rows as the document file has records, or exactly one fewer.
C10_CsvAtMostOneBehind ==
  (~hist.io_error /\ json_file.state # "corrupt") =>
    \/ Len(DataRows(csv_file)) = Len(json_file.data)
    \/ Len(DataRows(csv_file)) = Len(json_file.data) - 1

\* C11: an accept call on a record whose key is already in the dedup index
\* returns false and leaves the index, the in-memory list, the document file,
\* the columnar file and the candidate's own index field unchanged.
C11_DuplicateAcceptChangesNothing ==
  [][ (pc = "idle" /\ pc' = "idle" /\ call'.made) =>
        \/ /\ result' = "False"
           /\ call'.after = call'.given
           /\ UNCHANGED <<processed_companies, companies_data, json_file,
                          csv_file>>
        \/ ~_is_duplicate_company(call'.given, processed_companies) ]_vars

\* a record that differs from a stored one in letter case and blanks only has
\* just been rejected
C11_Witness ==
  /\ pc = "idle"
  /\ call.made
  /\ result = "False"
  /\ ~hist.io_error
  /\ call.after = call.given
  /\ \E r \in Range(companies_data) :
        /\ _generate_company_key(r) = _generate_company_key(call.given)
        /\ r.name # call.given.name

\* C12: when an I/O error ends the commit of a non-duplicate record, accept
\* returns false and the record's key stays in the dedup index: a later accept
\* of a record with that key in the same session returns false.
C12_FailedKeyStaysIndexed ==
  pc = "idle" =>
    /\ hist.failed \subseteq processed_companies
    /\ ( /\ hist.failed # {}
          /\ call.made
          /\ _generate_company_key(call.given) \in hist.failed )
         => result = "False"

\* a record with the key of an earlier failed commit was offered again and
\* rejected as a duplicate
C12_Witness ==
  /\ pc = "idle"
  /\ hist.failed # {}
  /\ call.made
  /\ call.after = call.given
  /\ _generate_company_key(call.given) \in hist.failed
  /\ result = "False"

\* the run of main() has completed and the process has exited
RunCompleted == pc = "down" /\ run >= 1 /\ pos > Len(listing)

\* the elements of l at the positions from i on that are not in bad
RECURSIVE KeepFrom(_, _, _)
KeepFrom(l, i, bad) ==
  IF i > Len(l) THEN <<>>
  ELSE (IF i \in bad THEN <<>> ELSE <<l[i]>>) \o KeepFrom(l, i + 1, bad)

SourceUrls(data) == [i \in 1..Len(data) |-> data[i].source_url]

\* C3: after a first run that completed without a fault, a later run that
\* yields only candidates of the first run accepts none of them and leaves the
\* document file as the first run left it.
C3_SecondRunAcceptsNothing ==
  (hist.clean1 /\ run >= 2 /\ hist.later_same) =>
    /\ hist.later_accepts = 0
    /\ json_file = hist.doc1

\* a second run has completed over the same candidates as the first, which
\* stored two records
C3_Witness ==
  /\ RunCompleted
  /\ run = 2
  /\ hist.clean1
  /\ hist.later_same
  /\ Len(hist.doc1.data) = 2
  /\ Len(listing) = 2

\* C8: after a first run without I/O error or crash, the document file holds,
\* in visit order, exactly the entities whose navigation and extraction did
\* not throw.
C8_ThrownEntitySkipped ==
  (RunCompleted /\ run = 1 /\ faults = 0) =>
    SourceUrls(json_file.data) =
      KeepFrom(listing, 1, hist.skipped \cup hist.threw)

\* C13: one strategy is used per run: direct-link iff the candidate URL set
\* is non-empty; otherwise click-and-collect iff some item selector matches at
\* least 5 elements; otherwise single-surface.
C13_StrategyByThresholds ==
  strategy # "none" =>
    strategy =
      IF listing # <<>> THEN "direct"
      ELSE IF helper_items >= MinSimilarItems \/ items >= MinSimilarItems
           THEN "click"
           ELSE "single"

\* C14: records enter the in-memory list and the document file in the order
\* their surfaces are visited: every step of a run that changes the list or
\* the file appends the record of the surface just visited, rewrites the file
\* to equal the list, and only then moves on to the next entity.
C14_StoredInVisitOrder ==
  [][ (pc = "scraping" /\ pc' = "scraping") =>
        /\ json_file' # json_file => companies_data' # companies_data
        /\ companies_data' # companies_data =>
             /\ call'.made
             /\ call'.given.source_url \in Surfaces
             /\ companies_data' = Append(companies_data, call'.after)
             /\ json_file' = json_dump(companies_data')
             /\ pos' = pos + 1 ]_vars

\* a direct-link run has stored the entities behind both links of the listing
C14_Witness ==
  /\ pc = "scraping"
  /\ strategy = "direct"
  /\ Len(listing) = 2
  /\ pos = 3
  /\ SourceUrls(companies_data) = listing
  /\ json_file = json_dump(companies_data)

\* C15: on every path out of a run after the browser was launched (normal
\* completion, per-entity failures, a fatal error while loading the listing)
\* the browser is closed before the run returns or propagates the error.
C15_BrowserClosedOnReturn ==
  /\ returned.done => browser = "closed"
  /\ pc \in {"loading", "scraping"} => browser = "open"

\* a click-based run has come to its end with one record stored
C15_Witness ==
  /\ returned.done
  /\ strategy = "click"
  /\ scroll_attempts = max_scroll_attempts
  /\ Len(returned.value) = 1
  /\ browser = "closed"

\* C16: if the initial listing cannot be loaded, main returns an empty list,
\* no candidate is accepted, and the persisted files and the records loaded
\* from them are left unchanged.
C16_ListingFailureAborts ==
  [][ (pc = "loading" /\ pc' = "returned") =>
        /\ returned' = Returned(<<>>)
        /\ ~call'.made
        /\ UNCHANGED <<json_file, csv_file, companies_data,
                       processed_companies, accepted>>
        /\ companies_data' =
             _load_existing_data(json_file').companies_data ]_vars

\* the second run failed to load the listing; the records of the first run
\* are loaded and on disk
C16_Witness ==
  /\ pc = "returned"
  /\ run = 2
  /\ returned = Returned(<<>>)
  /\ Len(companies_data) = 2
  /\ json_file = json_dump(companies_data)
  /\ Len(DataRows(csv_file)) = 2

\* a record whose name, website_url and source_url are all empty
AllEmpty(company_data) == Triple(company_data) = <<<<>>, <<>>, <<>>>>

\* C17: two candidates whose name, websiteUrl and sourceUrl are all empty get
\* distinct keys: once one of them is accepted, another is not a duplicate.
C17_EmptyRecordsDistinct ==
  pc = "idle" =>
    \A r \in Range(companies_data) : \A c \in Candidates :
      (AllEmpty(r) /\ AllEmpty(c) /\ c.name # r.name) =>
         /\ _generate_company_key(c) # _generate_company_key(r)
         /\ ~_is_duplicate_company(c, processed_companies)

\* C18: after any sequence of accepts, restarts and crashes, a columnar file
\* that holds rows starts with a header row and contains no other header row.
C18_OneHeaderFirst ==
  (csv_file.exists /\ DataRows(csv_file) # <<>>) =>
    /\ csv_file.rows[1].kind = "header"
    /\ \A i \in 2..Len(csv_file.rows) : csv_file.rows[i].kind = "row"

\* C19: on reload at startup the in-memory list equals the records of the
\* document file and the dedup index the set of their keys, whatever the
\* columnar file holds; neither file is changed.
C19_ReloadFromDocument ==
  [][ (pc = "down" /\ pc' = "idle") =>
        /\ companies_data' = json_file.data
        /\ processed_companies' =
             {_generate_company_key(r) : r \in Range(json_file.data)}
        /\ UNCHANGED <<json_file, csv_file>> ]_vars

\* a session was constructed on a document file of two records and a columnar
\* file with one data row
C19_Witness ==
  /\ pc = "idle"
  /\ ~call.made
  /\ hist.crash_in_commit
  /\ Len(json_file.data) = 2
  /\ companies_data = json_file.data
  /\ Cardinality(processed_companies) = 2
  /\ Len(DataRows(csv_file)) = 1

\* C20: within a session no step other than clear-all removes a key from the
\* dedup index; clear-all empties the index and the list and deletes both
\* files, after which a record accepted before can be accepted again.
C20_IndexGrowsUntilCleared ==
  [][ (pc = "idle" /\ pc' = "idle") =>
        /\ \/ processed_companies \subseteq processed_companies'
           \/ /\ hist'.cleared = processed_companies
              /\ processed_companies' = {}
              /\ companies_data' = <<>>
              /\ json_file' = JsonAbsent
              /\ csv_file' = CsvAbsent
        /\ (call'.made /\ companies_data = <<>>
              /\ _generate_company_key(call'.given) \in hist.cleared)
             => result' = "True" \/ hist'.io_error ]_vars

\* a record whose key clear-all removed has been accepted again
C20_Witness ==
  /\ pc = "idle"
  /\ call.made
  /\ result = "True"
  /\ _generate_company_key(call.given) \in hist.cleared
  /\ Len(companies_data) = 1
  /\ json_file = json_dump(companies_data)

\* the input carries a scheme
HasScheme(url) == url # <<>> /\ Head(url) \in SchemeToks

\* C21: normalize returns its input unchanged whenever the input carries a
\* scheme, whatever the scheme and the letter case of the scheme.
C21_AbsoluteUnchanged ==
  (arg.fn = "normalize_url" /\ res.done /\ HasScheme(arg.url)) =>
    res.value = arg.url

\* C22: for an input without a scheme, normalize applies the first rule that
\* fits, in this order: empty gives None; "//..." gets the prefix "https:";
\* "/..." is resolved against the base; an input that contains a "." and does
\* not start with one gets the prefix "https://"; an input without a "." is
\* resolved against the base.
C22_RulesInOrder ==
  (arg.fn = "normalize_url" /\ res.done /\ ~HasScheme(arg.url)) =>
    res.value =
      CASE arg.url = <<>> \/ arg.url = None -> None
        [] StartsWith(arg.url, <<"/", "/">>) -> <<"https:">> \o arg.url
        [] StartsWith(arg.url, <<"/">>) -> urljoin(arg.base_url, arg.url)
        [] Contains(arg.url, ".") /\ Head(arg.url) # "." ->
             <<"https:", "/", "/">> \o arg.url
        [] ~Contains(arg.url, ".") -> urljoin(arg.base_url, arg.url)
        [] OTHER -> res.value

\* a domain-like string with a path, given under a base that has a path, has
\* got the prefix and nothing of the base
C22_Witness ==
  /\ arg.fn = "normalize_url"
  /\ res.done
  /\ arg.url = <<"e", ".", "c", "/", "p">>
  /\ arg.base_url = <<"https:", "/", "/", "e", ".", "c", "/", "d", "/", "l">>
  /\ res.value = <<"https:", "/", "/", "e", ".", "c", "/", "p">>
  /\ res.value # urljoin(arg.base_url, arg.url)

\* the non-empty links of the list that the if/elif chain files under slot
FiledUnder(socials_list, slot) ==
  SelectSeq(socials_list, LAMBDA u :
    /\ u # <<>>
    /\ slot =
         IF AnyPlatformIn(Lower(u), FacebookNames) THEN "facebook"
         ELSE IF AnyPlatformIn(Lower(u), InstagramNames) THEN "instagram"
         ELSE IF AnyPlatformIn(Lower(u), LinkedinNames) THEN "linkedin"
         ELSE IF AnyPlatformIn(Lower(u), TwitterNames) THEN "twitter"
         ELSE "other_socials")

FirstOrEmpty(s) == IF s = <<>> THEN <<>> ELSE Head(s)

\* C23: each link is filed under the first of facebook, instagram, linkedin,
\* twitter whose names it contains; each slot holds the first link of the
\* list filed under it, or the empty string; the links filed under none of
\* the four make up other_socials in the order of the list; nothing else is
\* in the output.
C23_FirstOfEachFamily ==
  (arg.fn = "_categorize_social_media" /\ res.done
     /\ arg.socials_list # None) =>
    /\ \A slot \in {"facebook", "instagram", "linkedin", "twitter"} :
         res.value[slot] = FirstOrEmpty(FiledUnder(arg.socials_list, slot))
    /\ res.value.other_socials =
         Join(<<" ", "|", " ">>, FiledUnder(arg.socials_list, "other_socials"))

\* two facebook links, the second one also naming x.com, around a link of no
\* family: the first is kept, the second is in no slot
C23_Witness ==
  /\ arg.fn = "_categorize_social_media"
  /\ res.done
  /\ arg.socials_list = << <<"FB.ME", "/", "p">>, <<"youtube.com">>,
                           <<"facebook.com", "/", "x.com">> >>
  /\ res.value.facebook = <<"FB.ME", "/", "p">>
  /\ res.value.twitter = <<>>
  /\ res.value.other_socials = <<"youtube.com">>

\* the patterns, by position, whose cleaned match is long enough
LongEnough(text, patterns) ==
  {i \in 1..Len(patterns) :
     /\ re_search(patterns[i], text) # None
     /\ Len(CleanPhone(re_search(patterns[i], text))) >= MinPhoneLength}

\* C24: extractPhone returns the cleaned match of the first pattern whose
\* cleaned match has at least 10 characters, None if there is no such pattern,
\* and every value it returns has at least 10 characters.
C24_FirstLongEnough ==
  (arg.fn = "extract_phone_from_text" /\ res.done) =>
    LET good == IF arg.text \in {None, <<>>} THEN {}
                ELSE LongEnough(arg.text, arg.phone_patterns)
        first == CHOOSE i \in good : \A j \in good : i <= j
    IN /\ res.value =
            IF good = {} THEN None
            ELSE CleanPhone(re_search(arg.phone_patterns[first], arg.text))
       /\ res.value # None => Len(res.value) >= MinPhoneLength

\* C25: during a run of the click loop the processed count never decreases
\* and no position is clicked a second time, whatever counts the listing
\* reports.
C25_WatermarkNeverDecreases ==
  [][ /\ (pc = "scraping" /\ pc' = "scraping") =>
           processed_count' >= processed_count
      /\ ~hist'.reclicked ]_vars

\* C26: the counter of the click loop equals the number of invocations of the
\* load-more driver since the last one that reported new content (a report of
\* new content makes it zero); the loop is left only when that number is 4,
\* and once it is 4 the run does nothing but leave the loop.
C26_StopsAfterFourDryPasses ==
  /\ [](strategy = "click" => scroll_attempts = hist.dry)
  /\ [][ (strategy = "click" /\ pc = "scraping" /\ pc' # "scraping") =>
           hist.dry = max_scroll_attempts ]_vars
  /\ [][ (strategy = "click" /\ pc = "scraping"
            /\ hist.dry >= max_scroll_attempts) => pc' # "scraping" ]_vars

\* the loop has ended after clicks, new content and four passes without
C26_Witness ==
  /\ strategy = "click"
  /\ returned.done
  /\ hist.dry = max_scroll_attempts
  /\ processed_count > 0
  /\ json_file.data # <<>>

\* C27: after a click that left page.url as it was before, the surface is
\* handled as an overlay: the record is tagged with the URL of the listing and
\* page.go_back is not called; after a click that changed page.url the record
\* is tagged with the new URL, and only then page.go_back is called.
C27_OverlayWhenUrlUnchanged ==
  [][ /\ (step = "clicked" /\ step' # "clicked") =>
           IF page_url = before_url
           THEN /\ step' = "overlay"
                /\ call'.given.source_url \in {BaseUrl, landing}
           ELSE /\ step' = "saved"
                /\ call'.given.source_url = page_url
      /\ (step = "saved" /\ step' # "saved") => page_url # before_url ]_vars

\* C28: of the close selectors whose element is visible the first in order is
\* clicked, and the Escape key is pressed only when none was visible.
C28_EscapeOnlyWithoutButton ==
  [][ /\ (step = "overlay" /\ step' = "closed") =>
           /\ close_visible' = {} => close_clicked' = 0
           /\ close_visible' # {} =>
                /\ close_clicked' \in close_visible'
                /\ \A k \in close_visible' : close_clicked' <= k
      /\ (step = "closed" /\ step' = "idle") => close_visible = {} ]_vars

\* C29: when the handling of an element raises, nothing is stored in that
\* step or by the handler, the records stored before stay as they are, the
\* handler navigates to the listing if page.url is not self.base_url, the
\* loop goes on with the next position, and a position whose handling raised
\* is not clicked again.
C29_RaisedEntitySkipped ==
  [][ /\ (step' = "raised" /\ step # "raised") =>
           /\ companies_data' = companies_data
           /\ json_file' = json_file
           /\ csv_file' = csv_file
      /\ (step = "raised" /\ step' # "raised") =>
           /\ companies_data' = companies_data
           /\ json_file' = json_file
           /\ csv_file' = csv_file
           /\ pc' = "scraping"
           /\ pos' = pos + 1
           /\ page_url # BaseUrl => page_url' = landing
      /\ (step = "idle" /\ step' # "idle") => pos \notin hist.raised ]_vars

\* the anchor at position i has an href without skip pattern whose normalized
\* form matches a detail pattern
Qualifies(hrefs, base_url, i) ==
  /\ hrefs[i] # <<>>
  /\ ~AnyPatternIn(Lower(hrefs[i]), SkipPatterns)
  /\ AnyPatternIn(normalize_url(hrefs[i], base_url), DetailPatterns)

\* the normalized URLs of the qualifying anchors, each at its first place
RECURSIVE FirstQualifying(_, _, _)
FirstQualifying(hrefs, base_url, i) ==
  IF i > Len(hrefs) THEN <<>>
  ELSE (IF /\ Qualifies(hrefs, base_url, i)
           /\ \A j \in 1..(i - 1) :
                Qualifies(hrefs, base_url, j) =>
                  normalize_url(hrefs[j], base_url)
                    # normalize_url(hrefs[i], base_url)
        THEN <<normalize_url(hrefs[i], base_url)>> ELSE <<>>)
       \o FirstQualifying(hrefs, base_url, i + 1)

\* C30: under direct-link the URLs page.goto is called with are, in discovery
\* order and each once, the normalized forms of the anchors that contain no
\* skip pattern and match a detail pattern: at every moment a prefix of that
\* sequence, and all of it when the run has ended.
C30_VisitsQualifyingAnchorsOnce ==
  (arg.fn = "find_company_links" /\ strategy = "direct") =>
    LET expected == FirstQualifying(arg.hrefs, arg.base_url, 1)
    IN /\ Len(hist.visited) <= Len(expected)
       /\ hist.visited = SubSeq(expected, 1, Len(hist.visited))
       /\ returned.done => hist.visited = expected
       /\ \A i, j \in 1..Len(hist.visited) :
            i # j => hist.visited[i] # hist.visited[j]

\* a run has ended over three anchors of which the first and the third lead
\* to the same page and the second is a mail link: one URL was visited
C30_Witness ==
  /\ arg.fn = "find_company_links"
  /\ arg.hrefs = << <<"/", "p">>, <<"mailto:", "p">>,
                    <<"https:", "/", "/", "e", ".", "c", "/", "p">> >>
  /\ returned.done
  /\ hist.visited = << <<"https:", "/", "/", "e", ".", "c", "/", "p">> >>

\* C31: whenever the extractor sets the website URL, the URL it sets is not a
\* social link, is not the URL of the current page, is not a prefix of it and
\* does not contain the marker "expo".
C31_WebsiteUrlIsForeign ==
  (arg.fn = "extract_website" /\ res.done /\ res.value # None) =>
    /\ ~is_social_url(res.value)
    /\ res.value # arg.current_url
    /\ ~StartsWith(arg.current_url, res.value)
    /\ ~Contains(res.value, "expo")

\* the host of a site of the file-name calls
HostOf(base_url) == SubSeq(base_url, 4, Len(base_url) - 2)

\* C32: the file slug of a site is its domain with only a leading "www."
\* removed and every dot replaced by an underscore, followed by
\* "_companies"; a "www." elsewhere in the domain is kept.
C32_SlugStripsLeadingWwwOnly ==
  (arg.fn = "slug" /\ res.done) =>
    LET host == HostOf(arg.base_url)
        stripped == IF Len(host) >= 2 /\ host[1] = "www" /\ host[2] = "."
                    THEN SubSeq(host, 3, Len(host)) ELSE host
    IN res.value =
         [i \in 1..Len(stripped) |->
            IF stripped[i] = "." THEN "_" ELSE stripped[i]]
         \o <<"_companies">>

\* C33: in every state of a live session (after construction, after every
\* accept whatever its outcome, after clear-all) the dedup index is the set of
\* the composite keys of the records of the in-memory list.
C33_IndexIsKeysOfList ==
  pc = "idle" =>
    processed_companies =
      {_generate_company_key(companies_data[i]) :
         i \in 1..Len(companies_data)}

\* an accept that an I/O error ended has returned False: the list holds a
\* record that the document file does not
C33_Witness ==
  /\ pc = "idle"
  /\ call.made
  /\ result = "False"
  /\ call.after # call.given
  /\ companies_data # <<>>
  /\ json_file.data # companies_data
  /\ processed_companies # {}

\* C34: the composite key is injective on identity triples: a record handed
\* to accept and a record of the list whose names, websiteUrls or sourceUrls
\* differ after trimming and case-folding have different keys, also when a
\* field holds the separator "|" or a label.
C34_KeyInjectiveOnTriples ==
  (pc = "idle" /\ call.made) =>
    \A r \in Range(companies_data) :
      Triple(r) # Triple(call.given) =>
        _generate_company_key(r) # _generate_company_key(call.given)

\* C35: if the number of list elements eventually stops growing, the
\* click-and-collect loop eventually ends and the run returns, also when a
\* load-more button stays visible and is clicked on every pass.
C35_ClickLoopTerminates ==
  (<>[][current_count' <= current_count]_current_count) => <>returned.done

C37_ReexportReconcilesFiles ==
  [][ (pc = "scraping" /\ pc' = "down" /\ returned'.done
         /\ companies_data # <<>>) =>
        /\ Len(csv_file'.rows) = Len(companies_data) + 1
        /\ csv_file'.rows[1] = CsvHeader
        /\ \A i \in 1..Len(companies_data) :
             csv_file'.rows[i + 1] = CsvRow(companies_data[i])
        /\ json_file'.state = "valid"
        /\ json_file'.data = companies_data ]_vars

\* a run that loaded one record and accepted one has ended: the columnar
\* file, which held no row of the loaded record, holds two rows
C37_Witness ==
  /\ pc = "down"
  /\ returned.done
  /\ Len(returned.value) = 2
  /\ Len(accepted) = 1
  /\ accepted[1].company_index = 2
  /\ Len(DataRows(csv_file)) = 2
  /\ json_file.data = returned.value

\* C38: normalize is idempotent under an http(s) base: for every non-empty
\* input, normalizing what normalize returned returns it unchanged.
C38_NormalizeIdempotent ==
  (arg.fn = "normalize_url" /\ res.done /\ "again" \in DOMAIN res
     /\ arg.url # <<>> /\ arg.url # None) =>
    res.again = res.value

\* a path with a dot segment was resolved against the base by the first call
\* and left as it is by the second
C38_Witness ==
  /\ arg.fn = "normalize_url"
  /\ res.done
  /\ "again" \in DOMAIN res
  /\ arg.url = <<"/", "p", "/", ".", ".">>
  /\ res.value # arg.url
  /\ res.again = res.value

====
